---------------------------- MODULE Spec2Model ----------------------------
(* Verification model of five subsystems of the repository:                *)
(*   - the grease-pencil curve draw modal tool                             *)
(*     (source/blender/editors/gpencil/gpencil_curve_draw.c);              *)
(*   - the dynamic-topology BMesh PBVH                                     *)
(*     (source/blender/blenkernel/intern/pbvh_bmesh.c);                    *)
(*   - the grease-pencil offset modifier                                   *)
(*     (source/blender/gpencil_modifiers/intern/MOD_gpenciloffset.c);      *)
(*   - the spreadsheet editor                                              *)
(*     (source/blender/editors/space_spreadsheet/space_spreadsheet.cc);    *)
(*   - the profiler editor                                                 *)
(*     (source/blender/editors/space_profiler/profiler_draw.cc).           *)
(* Each subsystem has its own specifications; the variables of the other   *)
(* subsystems stay unchanged in them.                                      *)
EXTENDS Integers, Sequences, FiniteSets, TLC

VARIABLES
  \* ---- curve draw tool (tGPDcurve_draw and the active frame) ----
  gpf_strokes,     \* gpf->strokes: the active frame's stroke list (stroke ids)
  strokes_before,  \* history: gpf->strokes when the operator was invoked
  gps,             \* tcd->gps: the in-progress stroke (0: none)
  cpts,            \* tcd->gpc->curve_points (tot_curve_points = Len(cpts))
  state,           \* tcd->state
  imval,           \* tcd->imval
  imval_start,     \* tcd->imval_start
  is_mouse_down,   \* tcd->is_mouse_down
  is_cyclic,       \* tcd->is_cyclic
  prev_pressure,   \* tcd->prev_pressure (in tenths)
  status,          \* operator status: idle, modal, finished, cancelled, crashed
  ev,              \* history: the event handled last
  pre_state,       \* history: tcd->state when that event arrived
  pre_n,           \* history: tot_curve_points when that event arrived
  n_events,        \* history: how many events the operator has handled
  replaced,        \* history: gpencil_pop_curve_point has replaced the stroke
  scenario,        \* history: progress of "click, drag, release, confirm" and
                   \* the position of the click
  imval_press,     \* history: where the click that began the current point was
                   \* (event->mval of the invocation or of the last LEFTMOUSE press)
  pending          \* history: a press in IN_MOVE has begun a point and neither a
                   \* release nor DELETE_LAST has come since

curveVars == <<gpf_strokes, strokes_before, gps, cpts, state, imval, imval_start,
               is_mouse_down, is_cyclic, prev_pressure, status, ev, pre_state,
               pre_n, n_events, replaced, scenario,
               imval_press, pending>>

VARIABLES
  \* ---- dynamic-topology PBVH (PBVH, its BMesh, one update_topology call) ----
  pbvh,            \* the PBVH: nodes, detail sizes, and pbvh->bm with its tags
  pc,              \* position inside BKE_pbvh_bmesh_update_topology ("idle": outside)
  args,            \* arguments of the running call
  eq_ctx,          \* EdgeQueueContext of the running call (queue and statistics)
  loc,             \* locals of the running call
  hist             \* history of the calls made so far

pbvhVars == <<pbvh, pc, args, eq_ctx, loc, hist>>

VARIABLES
  \* ---- gpencil offset modifier, spreadsheet editor, profiler editor ----
  gpmod,           \* offset modifier: its settings, the stroke handed to it, the
                   \* outcome of the last deform call
  sheet,           \* spreadsheet editor: region, layout, scroll offset and the
                   \* draw requests of the last redraw
  prof             \* profiler editor: the node tree and its vertical layout

editorVars == <<gpmod, sheet, prof>>

vars == <<curveVars, pbvhVars, editorVars>>

------------------------------------------------------------------------------
(* Bounds of the curve tool model *)

\* most events the model lets one run of the operator handle
MaxEvents == 7

\* WM_event_drag_threshold(event), in pixels
DragThreshold == 1

\* event->mval values the model draws from
Mvals == {<<0, 0>>, <<1, 2>>}

\* event->mval values of a pointer move while the thickness is set: one more
\* position, straight below <<1, 2>>
ThicknessMvals == Mvals \cup {<<1, 0>>}

\* stroke lists the active frame may hold before the operator runs
FramesBefore == {<< >>, <<1>>, <<2, 1>>}

------------------------------------------------------------------------------
(* Curve tool: helpers *)

\* gpencil_project_mval_to_v3: r_out = rvec - delta(mval_prj - mval), an affine
\* map of the screen position (the view scales by 3 and offsets by 1 here)
gpencil_project_mval_to_v3(mval) == <<3 * mval[1] + 1, 3 * mval[2] + 1>>

\* a stroke address not used by a live stroke of the frame
NewStroke(strokes) ==
  CHOOSE id \in 1..(Len(strokes) + 1) : \A i \in 1..Len(strokes) : strokes[i] # id

RemLink(strokes, id) == SelectSeq(strokes, LAMBDA s : s # id)

\* what a read of curve_points[-1] may deliver
GarbagePoints ==
  { [vec0 |-> <<1, 1>>, vec1 |-> <<1, 1>>, vec2 |-> <<1, 1>>, h |-> "HD_FREE",
     pressure |-> 0, sel |-> FALSE] }

\* BKE_gpencil_stroke_editcurve_new(1) as filled in by gpencil_curve_draw_init
FirstPoint(co) ==
  [vec0 |-> co, vec1 |-> co, vec2 |-> co, h |-> "HD_FREE", pressure |-> 10,
   sel |-> FALSE]

Third(a, b) == <<a[1] + (b[1] - a[1]) \div 3, a[2] + (b[2] - a[2]) \div 3>>
Mirror(a, b) == <<2 * a[1] - b[1], 2 * a[2] - b[2]>>

\* BKE_gpencil_editcurve_recalculate_handles: vector handles point straight at
\* the neighbouring anchors; aligned and free handles stay
BKE_gpencil_editcurve_recalculate_handles(pts) ==
  IF Len(pts) < 2 THEN pts
  ELSE [i \in 1..Len(pts) |->
         IF pts[i].h # "HD_VECT" THEN pts[i]
         ELSE LET co == pts[i].vec1
                  prv == IF i > 1 THEN pts[i - 1].vec1 ELSE Mirror(co, pts[i + 1].vec1)
                  nxt == IF i < Len(pts) THEN pts[i + 1].vec1
                         ELSE Mirror(co, pts[i - 1].vec1)
              IN [pts[i] EXCEPT !.vec0 = Third(co, prv), !.vec2 = Third(co, nxt)]]


\* mutant: the copy keeps the handle type of the old last point
gpencil_push_curve_point_keep_handle(pts) ==
  { Append(pts, old_last) :
      old_last \in IF Len(pts) = 0 THEN GarbagePoints ELSE {pts[Len(pts)]} }

\* gpencil_push_curve_point: one more point, a copy of the old last one, with
\* vector handles. The results are a set: with no old last point the copy reads
\* curve_points[-1].
gpencil_push_curve_point(pts) ==
  { Append(pts, [old_last EXCEPT !.h = "HD_VECT"]) :
      old_last \in IF Len(pts) = 0 THEN GarbagePoints ELSE {pts[Len(pts)]} }

\* mutant: the copy takes all tot points
gpencil_pop_curve_point_all(pts) == pts

\* gpencil_pop_curve_point, the curve: the first tot - 1 points
gpencil_pop_curve_point(pts) == SubSeq(pts, 1, Len(pts) - 1)

\* mutant: the old stroke stays linked in the frame
PopStrokes_no_remlink(strokes, old) == Append(strokes, NewStroke(strokes))

\* gpencil_pop_curve_point, the frame: the duplicate replaces the old stroke and
\* is linked at the tail
PopStrokes(strokes, old) == Append(RemLink(strokes, old), NewStroke(strokes))

\* gpencil_set_handle_type_last_point
gpencil_set_handle_type_last_point(pts, type) ==
  IF Len(pts) = 0 THEN pts ELSE [pts EXCEPT ![Len(pts)].h = type]

Abs(x) == IF x < 0 THEN -x ELSE x

\* the IN_SET_THICKNESS branch of gpencil_curve_draw_update, in tenths
ThicknessPressure(prev, mval, start) ==
  LET move == <<mval[1] - start[1], mval[2] - start[2]>>
      dir == IF move[1] > 0 THEN 1 ELSE -1
      dist == Abs(move[1]) + Abs(move[2])
      p == prev + dir * dist
  IN IF p < 0 THEN 0 ELSE p

\* gpencil_curve_draw_update: acts on the last curve point according to the state
gpencil_curve_draw_update(st, pts, mval, start, prev) ==
  IF Len(pts) = 0 THEN pts
  ELSE LET n == Len(pts)
           co == gpencil_project_mval_to_v3(mval)
       IN CASE st = "IN_MOVE" ->
                 BKE_gpencil_editcurve_recalculate_handles(
                   [pts EXCEPT ![n].vec0 = co, ![n].vec1 = co, ![n].vec2 = co])
            [] st = "IN_DRAG_ALIGNED_HANDLE" ->
                 [pts EXCEPT ![n].vec0 = Mirror(pts[n].vec1, co), ![n].vec2 = co]
            [] st = "IN_DRAG_FREE_HANDLE" -> [pts EXCEPT ![n].vec2 = co]
            [] st = "IN_SET_THICKNESS" ->
                 [pts EXCEPT ![n].pressure = ThicknessPressure(prev, mval, start)]
            [] OTHER -> pts

\* gpencil_curve_draw_update writes through curve_points[tot - 1] in every state
\* but IN_SET_VECTOR: with no point that write is out of bounds
UpdateOutOfBounds(st, pts) == Len(pts) = 0 /\ st # "IN_SET_VECTOR"

\* gpencil_curve_draw_confirm: the last point is deselected
gpencil_curve_draw_confirm(pts) ==
  BKE_gpencil_editcurve_recalculate_handles(
    IF Len(pts) = 0 THEN pts ELSE [pts EXCEPT ![Len(pts)].sel = FALSE])

\* what the operator returns to after a handler: an out-of-bounds access either
\* goes unnoticed or ends the process
Outcomes(oob, normal) == IF oob THEN {normal, "crashed"} ELSE {normal}

DragStates == {"IN_SET_VECTOR", "IN_DRAG_ALIGNED_HANDLE", "IN_DRAG_FREE_HANDLE"}

LenSq(a, b) == (a[1] - b[1]) * (a[1] - b[1]) + (a[2] - b[2]) * (a[2] - b[2])

\* gpencil_curve_draw_exit: the tool data is freed
gpencil_curve_draw_exit ==
  /\ state' = "IN_MOVE"
  /\ imval' = <<0, 0>>
  /\ imval_start' = <<0, 0>>
  /\ is_mouse_down' = FALSE
  /\ is_cyclic' = FALSE
  /\ prev_pressure' = 0

\* the curve tool and the PBVH run without the editors and the modifier
NoEditors ==
  /\ gpmod = << >>
  /\ sheet = << >>
  /\ prof = << >>

\* history kept by every modal handler
\* the scenario "invoke with a click (1), move until the tool drags an aligned
\* handle (2), release (3), CONFIRM (4)"; any other event leaves it (0)
ScenarioNext(name) ==
  LET step == scenario[1]
      to(k) == <<k, scenario[2]>>
  IN CASE name = "invoke" /\ is_mouse_down' -> <<1, imval'>>
       [] name = "MOUSEMOVE" /\ step = 1 /\ state' = "IN_SET_VECTOR" -> to(1)
       [] name = "MOUSEMOVE" /\ step \in {1, 2}
            /\ state' = "IN_DRAG_ALIGNED_HANDLE" -> to(2)
       [] name = "RELEASE" /\ step = 2 -> to(3)
       [] name = "MOUSEMOVE" /\ step = 3 -> to(3)
       [] name = "CONFIRM" /\ step = 3 -> to(4)
       [] OTHER -> <<0, <<0, 0>>>>

Handled(name) ==
  /\ n_events < MaxEvents
  /\ ev' = name
  /\ pre_state' = state
  /\ pre_n' = Len(cpts)
  /\ n_events' = n_events + 1
  /\ replaced' = (replaced \/ (gps # 0 /\ gps' \notin {gps, 0}))
  /\ scenario' = ScenarioNext(name)
  /\ imval_press' = IF name \in {"invoke", "PRESS"} THEN imval' ELSE imval_press
  /\ pending' = IF name = "PRESS" THEN state = "IN_MOVE"
                ELSE IF name \in {"invoke", "RELEASE", "DELETE_LAST", "CONFIRM", "CANCEL"}
                THEN FALSE
                ELSE pending
  /\ UNCHANGED <<pbvhVars, editorVars>>

------------------------------------------------------------------------------
(* Curve tool: the operator *)

\* the curve tool runs without a PBVH
NoPbvh ==
  /\ pbvh = << >>
  /\ pc = "idle"
  /\ args = << >>
  /\ eq_ctx = << >>
  /\ loc = << >>
  /\ hist = << >>

InitCurve ==
  /\ NoPbvh
  /\ NoEditors
  /\ gpf_strokes \in FramesBefore
  /\ strokes_before = gpf_strokes
  /\ gps = 0
  /\ cpts = << >>
  /\ state = "IN_MOVE"
  /\ imval = <<0, 0>>
  /\ imval_start = <<0, 0>>
  /\ is_mouse_down = FALSE
  /\ is_cyclic = FALSE
  /\ prev_pressure = 0
  /\ status = "idle"
  /\ ev = "none"
  /\ pre_state = "IN_MOVE"
  /\ pre_n = 0
  /\ n_events = 0
  /\ replaced = FALSE
  /\ scenario = <<0, <<0, 0>>>>
  /\ imval_press = <<0, 0>>
  /\ pending = FALSE

\* gpencil_curve_draw_invoke -> gpencil_curve_draw_init
gpencil_curve_draw_invoke ==
  /\ status = "idle"
  /\ \E mval \in Mvals, press \in BOOLEAN :
       /\ imval' = mval
       /\ is_mouse_down' = press
       /\ cpts' = gpencil_curve_draw_update(
                    "IN_SET_VECTOR", <<FirstPoint(gpencil_project_mval_to_v3(mval))>>,
                    mval, <<0, 0>>, 0)
  /\ state' = "IN_SET_VECTOR"
  /\ gps' = NewStroke(gpf_strokes)
  /\ gpf_strokes' = Append(gpf_strokes, NewStroke(gpf_strokes))
  /\ strokes_before' = gpf_strokes
  /\ status' = "modal"
  /\ UNCHANGED <<imval_start, is_cyclic, prev_pressure>>
  /\ Handled("invoke")

\* gpencil_curve_draw_modal, CD_MODAL_CONFIRM
Modal_CONFIRM ==
  /\ status = "modal"
  /\ IF state = "IN_MOVE" /\ Len(cpts) = 0
       THEN \* gpencil_pop_curve_point allocates -1 points and copies into them
            /\ status' = "crashed"
            /\ UNCHANGED <<gpf_strokes, gps, cpts, state, imval, imval_start,
                           is_mouse_down, is_cyclic, prev_pressure>>
       ELSE /\ cpts' = gpencil_curve_draw_confirm(
                         IF state = "IN_MOVE" THEN gpencil_pop_curve_point(cpts)
                         ELSE cpts)
            /\ gpf_strokes' = IF state = "IN_MOVE" THEN PopStrokes(gpf_strokes, gps)
                              ELSE gpf_strokes
            /\ gps' = IF state = "IN_MOVE" THEN NewStroke(gpf_strokes) ELSE gps
            /\ status' \in Outcomes(Len(cpts') = 0, "finished")
            /\ gpencil_curve_draw_exit
  /\ UNCHANGED strokes_before
  /\ Handled("CONFIRM")

\* gpencil_curve_draw_modal, CD_MODAL_CANCEL
Modal_CANCEL ==
  /\ status = "modal"
  /\ gpf_strokes' = RemLink(gpf_strokes, gps)
  /\ gps' = 0
  /\ cpts' = << >>
  /\ status' = "cancelled"
  /\ gpencil_curve_draw_exit
  /\ UNCHANGED strokes_before
  /\ Handled("CANCEL")

\* gpencil_curve_draw_cancel, the operator's cancel callback: the window
\* manager ends the running tool; it is no event of the modal handler
gpencil_curve_draw_cancel ==
  /\ status = "modal"
  /\ status' = "cancelled"
  /\ gpencil_curve_draw_exit
  /\ ev' = "cancel"
  /\ pre_state' = state
  /\ pre_n' = Len(cpts)
  /\ pending' = FALSE
  /\ UNCHANGED <<gpf_strokes, gps, cpts, strokes_before, n_events, replaced, scenario,
                 imval_press>>
  /\ UNCHANGED <<pbvhVars, editorVars>>

\* gpencil_curve_draw_modal, CD_MODAL_FREE_HANDLE_ON
Modal_FREE_HANDLE_ON ==
  /\ status = "modal"
  /\ \E mval \in Mvals : imval' = mval
  /\ IF state = "IN_DRAG_ALIGNED_HANDLE"
       THEN /\ state' = "IN_DRAG_FREE_HANDLE"
            /\ cpts' = gpencil_curve_draw_update(
                         "IN_DRAG_FREE_HANDLE",
                         gpencil_set_handle_type_last_point(cpts, "HD_FREE"),
                         imval', imval_start, prev_pressure)
            /\ status' \in Outcomes(Len(cpts) = 0, "modal")
       ELSE UNCHANGED <<state, cpts, status>>
  /\ UNCHANGED <<gpf_strokes, strokes_before, gps, imval_start, is_mouse_down,
                 is_cyclic, prev_pressure>>
  /\ Handled("FREE_HANDLE_ON")

\* gpencil_curve_draw_modal, CD_MODAL_FREE_HANDLE_OFF
Modal_FREE_HANDLE_OFF ==
  /\ status = "modal"
  /\ \E mval \in Mvals : imval' = mval
  /\ IF state = "IN_DRAG_FREE_HANDLE"
       THEN /\ state' = "IN_DRAG_ALIGNED_HANDLE"
            /\ cpts' = gpencil_curve_draw_update(
                         "IN_DRAG_ALIGNED_HANDLE",
                         gpencil_set_handle_type_last_point(cpts, "HD_ALIGN"),
                         imval', imval_start, prev_pressure)
            /\ status' \in Outcomes(Len(cpts) = 0, "modal")
       ELSE UNCHANGED <<state, cpts, status>>
  /\ UNCHANGED <<gpf_strokes, strokes_before, gps, imval_start, is_mouse_down,
                 is_cyclic, prev_pressure>>
  /\ Handled("FREE_HANDLE_OFF")

\* gpencil_curve_draw_modal, CD_MODAL_CYCLIC_TOGGLE
Modal_CYCLIC_TOGGLE ==
  /\ status = "modal"
  /\ \E mval \in Mvals : imval' = mval
  /\ is_cyclic' = ~is_cyclic
  /\ cpts' = gpencil_curve_draw_update(state, cpts, imval', imval_start, prev_pressure)
  /\ status' \in Outcomes(UpdateOutOfBounds(state, cpts), "modal")
  /\ UNCHANGED <<gpf_strokes, strokes_before, gps, state, imval_start, is_mouse_down,
                 prev_pressure>>
  /\ Handled("CYCLIC_TOGGLE")

\* mutant: IN_SET_VECTOR is abandoned as well
DeleteLastState_set_vector(st) == IF st \in DragStates THEN "IN_MOVE" ELSE st

\* CD_MODAL_DELETE_LAST, the state: a dragged handle is abandoned
DeleteLastState(st) ==
  IF st \in {"IN_DRAG_ALIGNED_HANDLE", "IN_DRAG_FREE_HANDLE"} THEN "IN_MOVE" ELSE st

\* gpencil_curve_draw_modal, CD_MODAL_DELETE_LAST
Modal_DELETE_LAST ==
  /\ status = "modal"
  /\ \E mval \in Mvals : imval' = mval
  /\ IF state = "IN_MOVE" /\ Len(cpts) = 0
       THEN \* gpencil_pop_curve_point allocates -1 points and copies into them
            /\ status' = "crashed"
            /\ UNCHANGED <<gpf_strokes, gps, cpts, state>>
       ELSE /\ state' = DeleteLastState(state)
            /\ cpts' = gpencil_curve_draw_update(
                         state',
                         IF state = "IN_MOVE" THEN gpencil_pop_curve_point(cpts)
                         ELSE cpts,
                         imval', imval_start, prev_pressure)
            /\ gpf_strokes' = IF state = "IN_MOVE" THEN PopStrokes(gpf_strokes, gps)
                              ELSE gpf_strokes
            /\ gps' = IF state = "IN_MOVE" THEN NewStroke(gpf_strokes) ELSE gps
            /\ status' \in Outcomes(UpdateOutOfBounds(state', cpts'), "modal")
  /\ UNCHANGED <<strokes_before, imval_start, is_mouse_down, is_cyclic, prev_pressure>>
  /\ Handled("DELETE_LAST")

\* the pressure read through curve_points[tot - 1]
LastPressures(pts) ==
  IF Len(pts) = 0 THEN {g.pressure : g \in GarbagePoints} ELSE {pts[Len(pts)].pressure}

\* gpencil_curve_draw_modal, CD_MODAL_SET_THICKNESS
Modal_SET_THICKNESS ==
  /\ status = "modal"
  /\ \E mval \in Mvals : imval' = mval
  /\ IF state # "IN_SET_THICKNESS"
       THEN /\ state' = "IN_SET_THICKNESS"
            /\ prev_pressure' \in LastPressures(cpts)
            /\ imval_start' = imval'
            /\ cpts' = gpencil_curve_draw_update(
                         "IN_SET_THICKNESS", cpts, imval', imval', prev_pressure')
            /\ status' \in Outcomes(Len(cpts) = 0, "modal")
       ELSE UNCHANGED <<state, prev_pressure, imval_start, cpts, status>>
  /\ UNCHANGED <<gpf_strokes, strokes_before, gps, is_mouse_down, is_cyclic>>
  /\ Handled("SET_THICKNESS")

\* gpencil_curve_draw_modal, LEFTMOUSE with KM_PRESS
Modal_LEFTMOUSE_PRESS ==
  /\ status = "modal"
  /\ \E mval \in Mvals : imval' = mval
  /\ imval_start' = imval'
  /\ is_mouse_down' = TRUE
  /\ state' = CASE state = "IN_MOVE" -> "IN_SET_VECTOR"
                [] state = "IN_SET_THICKNESS" -> "IN_MOVE"
                [] OTHER -> state
  /\ UNCHANGED <<gpf_strokes, strokes_before, gps, cpts, is_cyclic, prev_pressure,
                 status>>
  /\ Handled("PRESS")

\* gpencil_curve_draw_modal, LEFTMOUSE with KM_RELEASE
Modal_LEFTMOUSE_RELEASE ==
  /\ status = "modal"
  /\ \E mval \in Mvals : imval' = mval
  /\ is_mouse_down' = FALSE
  /\ state' = IF state \in DragStates THEN "IN_MOVE" ELSE state
  /\ \E pushed \in IF state \in DragStates THEN gpencil_push_curve_point(cpts)
                   ELSE {cpts} :
       cpts' = gpencil_curve_draw_update(state', pushed, imval', imval_start,
                                         prev_pressure)
  /\ status' \in Outcomes(UpdateOutOfBounds(state', cpts'), "modal")
  /\ UNCHANGED <<gpf_strokes, strokes_before, gps, imval_start, is_cyclic,
                 prev_pressure>>
  /\ Handled("RELEASE")

\* gpencil_curve_draw_modal, MOUSEMOVE
Modal_MOUSEMOVE ==
  /\ status = "modal"
  /\ \E mval \in IF state = "IN_SET_THICKNESS" THEN ThicknessMvals ELSE Mvals :
       imval' = mval
  /\ IF state = "IN_SET_VECTOR"
        /\ LenSq(imval', imval_start) > DragThreshold * DragThreshold
       THEN /\ state' = "IN_DRAG_ALIGNED_HANDLE"
            /\ cpts' = gpencil_curve_draw_update(
                         "IN_DRAG_ALIGNED_HANDLE",
                         gpencil_set_handle_type_last_point(cpts, "HD_ALIGN"),
                         imval', imval_start, prev_pressure)
       ELSE /\ state' = state
            /\ cpts' = gpencil_curve_draw_update(state, cpts, imval', imval_start,
                                                 prev_pressure)
  /\ status' \in Outcomes(UpdateOutOfBounds(state', cpts), "modal")
  /\ UNCHANGED <<gpf_strokes, strokes_before, gps, imval_start, is_mouse_down,
                 is_cyclic, prev_pressure>>
  /\ Handled("MOUSEMOVE")

\* gpencil_curve_draw_modal, any other event: passed through
Modal_PASS_THROUGH ==
  /\ status = "modal"
  /\ \E mval \in Mvals : imval' = mval
  /\ UNCHANGED <<gpf_strokes, strokes_before, gps, cpts, state, imval_start,
                 is_mouse_down, is_cyclic, prev_pressure, status>>
  /\ Handled("OTHER")

NextCurve ==
  \/ gpencil_curve_draw_invoke
  \/ Modal_CONFIRM
  \/ Modal_CANCEL
  \/ gpencil_curve_draw_cancel
  \/ Modal_FREE_HANDLE_ON
  \/ Modal_FREE_HANDLE_OFF
  \/ Modal_CYCLIC_TOGGLE
  \/ Modal_DELETE_LAST
  \/ Modal_SET_THICKNESS
  \/ Modal_LEFTMOUSE_PRESS
  \/ Modal_LEFTMOUSE_RELEASE
  \/ Modal_MOUSEMOVE
  \/ Modal_PASS_THROUGH

SpecCurve == InitCurve /\ [][NextCurve]_vars

------------------------------------------------------------------------------
(* Curve tool: properties *)

\* C4: after the CANCEL command the active frame holds exactly the strokes, in
\* the same order, that it held when the tool was invoked, and no in-progress
\* stroke remains, whatever events came before (DELETE_LAST included)
C4_CancelRestoresFrame ==
  ev = "CANCEL" => /\ status = "cancelled"
                   /\ gpf_strokes = strokes_before
                   /\ gps = 0

\* C4 witness: CANCEL after gpencil_pop_curve_point replaced the stroke, in a
\* frame that held strokes before
C4_Witness ==
  /\ ev = "CANCEL"
  /\ replaced
  /\ Len(strokes_before) = 2
  /\ gpf_strokes = strokes_before

Last(pts) == pts[Len(pts)]

\* C5 as claimed: click, drag beyond the threshold, release, CONFIRM leaves a
\* curve of exactly 2 points, the first at the click position with vector
\* handles, the second with aligned handles
C5_TwoPointsClaimed ==
  scenario[1] = 4 =>
    /\ Len(cpts) = 2
    /\ cpts[1].vec1 = gpencil_project_mval_to_v3(scenario[2])
    /\ cpts[1].h = "HD_VECT"
    /\ cpts[2].h = "HD_ALIGN"

\* C5 amended: click, drag until the tool drags an aligned handle, release,
\* CONFIRM persists a stroke whose curve has exactly 1 point: at the click
\* position, with aligned handles that mirror each other through the anchor
C5_OnePointAligned ==
  scenario[1] = 4 =>
    /\ status = "finished"
    /\ gpf_strokes = Append(strokes_before, gps)
    /\ Len(cpts) = 1
    /\ cpts[1].vec1 = gpencil_project_mval_to_v3(scenario[2])
    /\ cpts[1].h = "HD_ALIGN"
    /\ cpts[1].vec0 = Mirror(cpts[1].vec1, cpts[1].vec2)
    /\ ~cpts[1].sel

\* C5 witness: the scenario ran to its end with a drag that left the anchor
C5_Witness ==
  /\ scenario[1] = 4
  /\ status = "finished"
  /\ Len(cpts) = 1
  /\ cpts[1].vec2 # cpts[1].vec1

\* C6: on CONFIRM the preview point of IN_MOVE is removed and no other, the
\* curve that stays has a last point, which is deselected, and the tool
\* finishes
C6_ConfirmClaimed ==
  ev = "CONFIRM" =>
    /\ status = "finished"
    /\ Len(cpts) = IF pre_state = "IN_MOVE" THEN pre_n - 1 ELSE pre_n
    /\ Len(cpts) >= 1
    /\ ~Last(cpts).sel

\* the fields of a curve point that only this tool writes
Core(pt) == <<pt.vec1, pt.h, pt.pressure, pt.sel>>

\* C7 as claimed: a release in a drag state appends a copy of the previous last
\* point with vector handles and leaves the earlier points as they were
C7_ReleaseCopyClaimed ==
  [][(status = "modal" /\ ev' = "RELEASE" /\ n_events' = n_events + 1
        /\ state \in DragStates /\ Len(cpts) >= 1)
     => /\ state' = "IN_MOVE"
        /\ Len(cpts') = Len(cpts) + 1
        /\ Last(cpts') = [Last(cpts) EXCEPT !.h = "HD_VECT"]
        /\ SubSeq(cpts', 1, Len(cpts)) = cpts]_vars

\* C7 amended: a release in IN_SET_VECTOR, IN_DRAG_ALIGNED_HANDLE or
\* IN_DRAG_FREE_HANDLE moves the tool to IN_MOVE and adds exactly one point; the
\* new last point has vector handles, lies at the release position and keeps
\* the pressure of the previous last point; the earlier points keep anchor,
\* handle type and pressure. A release in IN_MOVE or IN_SET_THICKNESS changes
\* neither the state nor the point count.
C7_ReleaseAmended ==
  [][(status = "modal" /\ ev' = "RELEASE" /\ n_events' = n_events + 1)
     => IF state \in DragStates
          THEN /\ state' = "IN_MOVE"
               /\ Len(cpts') = Len(cpts) + 1
               /\ Last(cpts').h = "HD_VECT"
               /\ Last(cpts').vec1 = gpencil_project_mval_to_v3(imval')
               /\ Len(cpts) >= 1 => Last(cpts').pressure = Last(cpts).pressure
               /\ \A i \in 1..Len(cpts) : Core(cpts'[i]) = Core(cpts[i])
          ELSE /\ state' = state
               /\ Len(cpts') = Len(cpts)]_vars

\* C7 witness: a release while an aligned handle was dragged has appended a point
C7_Witness ==
  /\ ev = "RELEASE"
  /\ pre_state = "IN_DRAG_ALIGNED_HANDLE"
  /\ status = "modal"
  /\ state = "IN_MOVE"
  /\ pre_n >= 1
  /\ Len(cpts) = pre_n + 1
  /\ Last(cpts).h = "HD_VECT"
  /\ Last(cpts).vec1 # cpts[pre_n].vec1

\* C8: DELETE_LAST in IN_MOVE takes one point off the curve and leaves the tool
\* in IN_MOVE; in IN_DRAG_ALIGNED_HANDLE or IN_DRAG_FREE_HANDLE it returns the
\* tool to IN_MOVE with the point count unchanged
C8_DeleteLastClaimed ==
  ev = "DELETE_LAST" =>
    /\ pre_state = "IN_MOVE" =>
         status = "modal" /\ state = "IN_MOVE" /\ Len(cpts) = pre_n - 1
    /\ pre_state \in {"IN_DRAG_ALIGNED_HANDLE", "IN_DRAG_FREE_HANDLE"} =>
         status = "modal" /\ state = "IN_MOVE" /\ Len(cpts) = pre_n

\* C20: in IN_SET_VECTOR a pointer move switches the tool to
\* IN_DRAG_ALIGNED_HANDLE (and the last point's handles to aligned) exactly
\* when the cursor is farther than the drag threshold from the position of the
\* click that began the current point, the invocation click for the first point
C20_DragFromPressClaimed ==
  (ev = "MOUSEMOVE" /\ pre_state = "IN_SET_VECTOR" /\ status = "modal") =>
    /\ (state = "IN_DRAG_ALIGNED_HANDLE")
         <=> (LenSq(imval, imval_press) > DragThreshold * DragThreshold)
    /\ state = "IN_DRAG_ALIGNED_HANDLE" => Last(cpts).h = "HD_ALIGN"
    /\ state # "IN_DRAG_ALIGNED_HANDLE" => state = "IN_SET_VECTOR"

Sign(x) == IF x > 0 THEN 1 ELSE IF x < 0 THEN -1 ELSE 0

\* the pressure the claim of C21 gives for a pointer at mval, in tenths
ClaimedPressure(baseline, mval, start) ==
  LET p == baseline + Sign(mval[1] - start[1])
                        * (Abs(mval[1] - start[1]) + Abs(mval[2] - start[2]))
  IN IF p < 0 THEN 0 ELSE p

\* C21: SET_THICKNESS in any other state enters IN_SET_THICKNESS and records
\* the last point's pressure and the cursor position as baseline; every later
\* pointer move in that state sets the last point's pressure to
\* max(0, baseline + direction * manhattan_distance / 10), direction being the
\* sign of the horizontal displacement from the baseline position, so the
\* pressure is never negative
C21_ThicknessClaimed ==
  [][(status = "modal" /\ n_events' = n_events + 1 /\ Len(cpts) >= 1) =>
       /\ (ev' = "SET_THICKNESS" /\ state # "IN_SET_THICKNESS") =>
            /\ state' = "IN_SET_THICKNESS"
            /\ prev_pressure' = Last(cpts).pressure
            /\ imval_start' = imval'
       /\ (ev' = "MOUSEMOVE" /\ state = "IN_SET_THICKNESS") =>
            /\ state' = "IN_SET_THICKNESS"
            /\ Len(cpts') = Len(cpts)
            /\ Last(cpts').pressure =
                 ClaimedPressure(prev_pressure, imval', imval_start)
            /\ Last(cpts').pressure >= 0]_vars

\* the transition table of C22; beyond: the pointer is farther than the drag
\* threshold from tcd->imval_start
ClaimedState(st, e, beyond) ==
  CASE e = "PRESS" /\ st = "IN_MOVE" -> "IN_SET_VECTOR"
    [] e = "PRESS" /\ st = "IN_SET_THICKNESS" -> "IN_MOVE"
    [] e = "MOUSEMOVE" /\ st = "IN_SET_VECTOR" /\ beyond -> "IN_DRAG_ALIGNED_HANDLE"
    [] e = "FREE_HANDLE_ON" /\ st = "IN_DRAG_ALIGNED_HANDLE" -> "IN_DRAG_FREE_HANDLE"
    [] e = "FREE_HANDLE_OFF" /\ st = "IN_DRAG_FREE_HANDLE" -> "IN_DRAG_ALIGNED_HANDLE"
    [] e = "RELEASE" /\ st \in {"IN_SET_VECTOR", "IN_DRAG_ALIGNED_HANDLE",
                                "IN_DRAG_FREE_HANDLE"} -> "IN_MOVE"
    [] e = "SET_THICKNESS" -> "IN_SET_THICKNESS"
    [] e = "DELETE_LAST" /\ st \in {"IN_DRAG_ALIGNED_HANDLE", "IN_DRAG_FREE_HANDLE"}
         -> "IN_MOVE"
    [] OTHER -> st

\* C22: while the tool runs, its state changes only by the transitions of the
\* table: press IN_MOVE -> IN_SET_VECTOR and IN_SET_THICKNESS -> IN_MOVE; move
\* beyond the drag threshold IN_SET_VECTOR -> IN_DRAG_ALIGNED_HANDLE;
\* FREE_HANDLE_ON aligned -> free; FREE_HANDLE_OFF free -> aligned; release
\* from IN_SET_VECTOR or a dragged handle -> IN_MOVE; SET_THICKNESS from any
\* other state -> IN_SET_THICKNESS; DELETE_LAST from a dragged handle ->
\* IN_MOVE. Every other pair of state and event (CYCLIC_TOGGLE and events the
\* tool does not handle included) leaves the state as it was.
C22_TransitionTable ==
  [][(status = "modal" /\ n_events' = n_events + 1
        /\ ev' \notin {"CONFIRM", "CANCEL"})
     => state' = ClaimedState(state, ev',
                              LenSq(imval', imval_start)
                                > DragThreshold * DragThreshold)]_vars

\* C22 witness: DELETE_LAST has abandoned a dragged free handle, in a run that
\* went through IN_SET_THICKNESS before
C22_Witness ==
  /\ ev = "DELETE_LAST"
  /\ pre_state = "IN_DRAG_FREE_HANDLE"
  /\ state = "IN_MOVE"
  /\ status = "modal"
  /\ prev_pressure > 0

------------------------------------------------------------------------------
(* PBVH: bounds, constants and input meshes *)

\* pbvh->leaf_limit: 1000 in the program, scaled down
LeafLimit == 2

\* DYNTOPO_MAX_ITER: 4096 in the program, scaled down
MaxIter == 3

\* most vertices the mesh may have been given while the model runs
MaxVerts == 10

\* most BKE_pbvh_bmesh_update_topology calls of one run
MaxCalls == 2

\* the "no node" value of the home-node tags
DYNTOPO_NODE_NONE == -1

\* lengths are counted in units of 1/80, so that the detail size 0.75f that
\* BKE_pbvh_build_bmesh sets is 60 and 0.75f * 0.4f is 24; coordinates are
\* multiples of 8 so that the midpoints of three generations of splits are
\* still whole numbers
DetailSize == 60

\* paint mask values are counted in eighths: 1.0f is 8
MaskOne == 8

\* Input meshes.  Every vertex lies on the x axis: co is co[0], and co[1] and
\* co[2] are 0 for every vertex, so they add nothing to a length, a bounding
\* box or a centroid.  faces maps a face to its loop cycle <<l_first->v,
\* l_first->next->v, l_first->prev->v>>; every edge of a face is an edge of
\* the mesh.  seam is the set of edges that carry BM_ELEM_SEAM.
Mesh(co, mask, vhide, faces, fhide) ==
  [co |-> co, mask |-> mask, vhide |-> vhide, faces |-> faces, fhide |-> fhide,
   seam |-> {}]

\* the mesh bm with BM_ELEM_SEAM set on the edges of seam
MeshWithSeam(bm, seam) == [bm EXCEPT !.seam = seam]

\* three faces around vertex 4 (an open tetrahedron) and one more on its rim
MeshFan ==
  Mesh(<<0, 64, 128, 60, 192>>, <<0, 0, 0, 0, 0>>, {},
       <<<<4, 1, 2>>, <<4, 2, 3>>, <<4, 3, 1>>, <<2, 5, 3>>>>, {})

\* a strip of four faces with short and long edges; vertex 3 is fully masked
MeshStrip ==
  Mesh(<<0, 16, 96, 112, 208, 224>>, <<0, 0, MaskOne, 0, 0, 0>>, {},
       <<<<1, 2, 3>>, <<2, 4, 3>>, <<3, 4, 5>>, <<4, 6, 5>>>>, {})

\* a strip whose far half is hidden
MeshHidden ==
  Mesh(<<0, 64, 80, 160, 176>>, <<0, 0, 0, 0, 0>>, {4, 5},
       <<<<1, 2, 3>>, <<2, 4, 3>>, <<3, 4, 5>>>>, {2, 3})

\* a face with the short edge {1, 2} whose vertex 1 no other face uses, next
\* to a large face of the same leaf
MeshCorner ==
  Mesh(<<100, 116, 180, 300, 0, 80>>, <<0, 0, 0, 0, 0, 0>>, {},
       <<<<1, 2, 3>>, <<2, 4, 3>>, <<5, 6, 3>>>>, {})

\* three faces around vertex 5 whose rim 1 - 2 - 3 - 4 has the short edge {2, 3}
MeshRidge ==
  Mesh(<<40, 88, 104, 160, 0>>, <<0, 0, 0, 0, 0>>, {},
       <<<<1, 2, 5>>, <<2, 3, 5>>, <<3, 4, 5>>>>, {})

\* the short edge is a seam on its own: each end has 1 seam edge
MeshSeamAlone == MeshWithSeam(MeshRidge, {{2, 3}})

\* a seam that ends at vertex 3: vertex 2 has 2 seam edges, vertex 3 has 1
MeshSeamEnd == MeshWithSeam(MeshRidge, {{1, 2}, {2, 3}})

\* a seam along the whole rim with a branch to vertex 5
MeshSeamRim == MeshWithSeam(MeshRidge, {{1, 2}, {2, 3}, {3, 4}, {2, 5}})

\* a face whose three vertices coincide (only zero-length edges) next to a
\* face with very long edges
MeshPoint ==
  Mesh(<<96, 96, 96, 1120, 4192>>, <<0, 0, 0, 0, 0>>, {},
       <<<<1, 2, 3>>, <<3, 4, 5>>>>, {})

\* a sliver with one zero-length and two very short edges
MeshSliver ==
  Mesh(<<96, 96, 100, 1120, 4192>>, <<0, 0, 0, 0, 0>>, {},
       <<<<1, 2, 3>>, <<3, 4, 5>>>>, {})

\* a strip of eight faces with no edge to split or to collapse: with a leaf
\* limit of 3 the build makes two inner nodes below the root
MeshBand ==
  Mesh(<<0, 28, 56, 84, 112, 140, 168, 196, 224, 252>>, <<0, 0, 0, 0, 0, 0, 0, 0, 0, 0>>, {},
       <<<<1, 2, 3>>, <<2, 4, 3>>, <<3, 4, 5>>, <<4, 6, 5>>, <<5, 6, 7>>, <<6, 8, 7>>,
         <<7, 8, 9>>, <<8, 10, 9>>>>, {})

\* a face between two faces of another leaf: face 1 shares the long edge
\* {1, 2} with face 2 and the shorter long edge {2, 3} with face 3
MeshWedge ==
  Mesh(<<0, 104, 40, 208, 192>>, <<0, 0, 0, 0, 0>>, {},
       <<<<1, 2, 3>>, <<2, 1, 4>>, <<3, 2, 5>>>>, {})

Meshes ==
  {MeshFan, MeshStrip, MeshHidden, MeshCorner, MeshSeamAlone, MeshSeamEnd, MeshSeamRim,
   MeshPoint, MeshSliver}

------------------------------------------------------------------------------
(* PBVH: the BMesh *)

Range(f) == {f[x] : x \in DOMAIN f}
Min(S) == CHOOSE x \in S : \A y \in S : x <= y
Max(S) == CHOOSE x \in S : \A y \in S : y <= x
Put(f, k, val) == [x \in DOMAIN f \cup {k} |-> IF x = k THEN val ELSE f[x]]
Drop(f, K) == [x \in DOMAIN f \ K |-> f[x]]

\* the elements of a set of element ids, oldest first: the order in which the
\* model walks a table set, a disk cycle or a radial cycle
Ascending(S) ==
  LET RECURSIVE R(_)
      R(T) == IF T = {} THEN << >> ELSE <<Min(T)>> \o R(T \ {Min(T)})
  IN  R(S)

\* a loop body Op run over the elements of s, threading the state acc
Fold(Op(_, _), acc, s) ==
  LET RECURSIVE F(_, _)
      F(a, i) == IF i > Len(s) THEN a ELSE F(Op(a, s[i]), i + 1)
  IN  F(acc, 1)

FaceVerts(P, f) == {P.faces[f][1], P.faces[f][2], P.faces[f][3]}
BM_FACES_OF_VERT(P, v) == Ascending({f \in DOMAIN P.faces : v \in FaceVerts(P, f)})
BM_FACES_OF_EDGE(P, e) == Ascending({f \in DOMAIN P.faces : e \subseteq FaceVerts(P, f)})
\* P.edges maps an edge, the set of its two vertices, to <<e->v1, e->v2>>
BM_EDGES_OF_VERT(P, v) == {e \in DOMAIN P.edges : v \in e}
BM_edge_exists(P, v1, v2) == {v1, v2} \in DOMAIN P.edges

\* BM_edge_create with BM_CREATE_NO_DOUBLE: an existing edge is kept as it is
BM_edge_create(P, v1, v2) ==
  IF BM_edge_exists(P, v1, v2) THEN P
  ELSE [P EXCEPT !.edges = Put(@, {v1, v2}, <<v1, v2>>)]

\* bm_edges_from_tri
bm_edges_from_tri(P, v_tri) ==
  BM_edge_create(BM_edge_create(BM_edge_create(P, v_tri[1], v_tri[2]),
                                v_tri[2], v_tri[3]), v_tri[3], v_tri[1])
BM_edge_is_wire(P, e) == BM_FACES_OF_EDGE(P, e) = << >>
BM_vert_edge_count(P, v) == Cardinality(BM_EDGES_OF_VERT(P, v))

\* the three edges of a triangle
TriEdges(v_tri) == {{v_tri[1], v_tri[2]}, {v_tri[2], v_tri[3]}, {v_tri[3], v_tri[1]}}

\* BM_face_kill: the face goes, its edges and vertices stay
BM_face_kill(P, f) ==
  [P EXCEPT !.faces = Drop(@, {f}), !.fnode = Drop(@, {f}), !.fhide = @ \ {f}]

\* BM_edge_kill: the faces that use the edge go with it
BM_edge_kill(P, e) ==
  LET fs == {f \in DOMAIN P.faces : e \subseteq FaceVerts(P, f)}
  IN  [P EXCEPT !.faces = Drop(@, fs), !.fnode = Drop(@, fs), !.fhide = @ \ fs,
                !.edges = Drop(@, {e}), !.seam = @ \ {e}]

\* BM_vert_kill: the edges of the vertex, and their faces, go with it
BM_vert_kill(P, v) ==
  LET fs == {f \in DOMAIN P.faces : v \in FaceVerts(P, f)}
  IN  [P EXCEPT !.faces = Drop(@, fs), !.fnode = Drop(@, fs), !.fhide = @ \ fs,
                !.edges = Drop(@, {e \in DOMAIN @ : v \in e}),
                !.seam = {e \in @ : v \notin e},
                !.co = Drop(@, {v}), !.mask = Drop(@, {v}),
                !.origco = Drop(@, {v}), !.stroke_id = Drop(@, {v}),
                !.vnode = Drop(@, {v}), !.vhide = @ \ {v}]

------------------------------------------------------------------------------
(* PBVH: nodes, node split and build *)

\* node->tribuf == NULL: no triangle buffer
NoTribuf == [alloc |-> FALSE, tris |-> << >>, verts |-> << >>]

\* a node as pbvh_grow_nodes hands it out (zeroed); a NULL set is the empty set
NewNode ==
  [flag |-> {}, bm_faces |-> {}, bm_unique_verts |-> {}, bm_other_verts |-> {},
   children_offset |-> 0, tribuf |-> NoTribuf]

totnode(P) == Cardinality(DOMAIN P.nodes)

pbvh_grow_nodes(P, n) ==
  [P EXCEPT !.nodes = [i \in 0 .. n - 1 |-> IF i \in DOMAIN @ THEN @[i] ELSE NewNode]]

FlagOn(P, ni, F) == [P EXCEPT !.nodes[ni].flag = @ \cup F]
FlagOff(P, ni, F) == [P EXCEPT !.nodes[ni].flag = @ \ F]

IsLeaf(P, ni) == "PBVH_Leaf" \in P.nodes[ni].flag

\* BKE_pbvh_bmesh_detail_size_set: detail_range is range_num / range_den
BKE_pbvh_bmesh_detail_size_set(P, detail_size, range_num, range_den) ==
  [P EXCEPT !.bm_max_edge_len = detail_size,
            !.bm_min_edge_len = (detail_size * range_num) \div range_den]

\* BBC_update_centroid of the face's bounding box: bcentroid = (bmin + bmax) *
\* 0.5, kept doubled
bcentroid2(P, f) ==
  LET xs == {P.co[v] : v \in FaceVerts(P, f)} IN Min(xs) + Max(xs)

\* the vertex loop body shared by pbvh_bmesh_node_finalize and the fast builder
NodeClaimVert(P, ni, v) ==
  IF v \in P.nodes[ni].bm_unique_verts THEN P
  ELSE IF P.vnode[v] # DYNTOPO_NODE_NONE
       THEN [P EXCEPT !.nodes[ni].bm_other_verts = @ \cup {v}]
       ELSE [P EXCEPT !.nodes[ni].bm_unique_verts = @ \cup {v}, !.vnode[v] = ni]

\* the face loop body: the face is tagged, then its three vertices are claimed
NodeClaimFace(P, ni, f) ==
  Fold(LAMBDA Q, k : NodeClaimVert(Q, ni, P.faces[f][k]), [P EXCEPT !.fnode[f] = ni],
       <<1, 2, 3>>)

BKE_pbvh_node_fully_hidden_set(P, ni, fully_hidden) ==
  IF fully_hidden THEN FlagOn(P, ni, {"PBVH_FullyHidden"})
  ELSE FlagOff(P, ni, {"PBVH_FullyHidden"})

\* pbvh_bmesh_node_finalize (the draw-buffer flags of
\* BKE_pbvh_node_mark_rebuild_draw are left out)
pbvh_bmesh_node_finalize(P, node_index) ==
  LET fs == P.nodes[node_index].bm_faces
      P0 == [P EXCEPT !.nodes[node_index].bm_unique_verts = {},
                      !.nodes[node_index].bm_other_verts = {}]
      P1 == Fold(LAMBDA Q, f : NodeClaimFace(Q, node_index, f), P0, Ascending(fs))
      has_visible == \E f \in fs : f \notin P.fhide
  IN  FlagOn(BKE_pbvh_node_fully_hidden_set(P1, node_index, ~has_visible),
             node_index, {"PBVH_UpdateNormals", "PBVH_UpdateTopology",
                          "PBVH_UpdateCurvatureDir", "PBVH_UpdateTris"})

\* mutant: a node at depth 6 is not split any more
node_split_limit_not_exceeded_at_6(P, node_index, depth) ==
  depth >= 6 \/ Cardinality(P.nodes[node_index].bm_faces) <= P.leaf_limit

\* the test "Node limit not exceeded" at the head of pbvh_bmesh_node_split
node_split_limit_not_exceeded(P, node_index, depth) ==
  depth > 6 \/ Cardinality(P.nodes[node_index].bm_faces) <= P.leaf_limit

\* pbvh_bmesh_node_split; bbc_array is computed from the coordinates, which do
\* not change while a node is split
RECURSIVE pbvh_bmesh_node_split(_, _, _)
pbvh_bmesh_node_split(P, node_index, depth) ==
  LET n == P.nodes[node_index] IN
  IF node_split_limit_not_exceeded(P, node_index, depth)
  THEN pbvh_bmesh_node_finalize(P, node_index)
  ELSE
    LET cen == [f \in n.bm_faces |-> bcentroid2(P, f)]
        cbmin == Min(Range(cen))
        cbmax == Max(Range(cen))
        \* bcentroid[axis] < mid, with mid = (cb.bmax[axis] + cb.bmin[axis]) * 0.5
        c1 == {f \in n.bm_faces : 2 * cen[f] < cbmax + cbmin}
        children == totnode(P)
        G == pbvh_grow_nodes(P, children + 2)
        P1 == [G EXCEPT
                 !.nodes[children] =
                    [NewNode EXCEPT !.flag = {"PBVH_Leaf"}, !.bm_faces = c1],
                 !.nodes[children + 1] =
                    [NewNode EXCEPT !.flag = {"PBVH_Leaf"}, !.bm_faces = n.bm_faces \ c1],
                 !.vnode = [v \in DOMAIN @ |->
                              IF v \in n.bm_unique_verts THEN DYNTOPO_NODE_NONE ELSE @[v]],
                 !.fnode = [f \in DOMAIN @ |->
                              IF f \in n.bm_faces THEN DYNTOPO_NODE_NONE ELSE @[f]],
                 !.nodes[node_index] =
                    [@ EXCEPT !.children_offset = children, !.bm_faces = {},
                              !.bm_unique_verts = {}, !.bm_other_verts = {},
                              !.flag = @ \ {"PBVH_Leaf"}]]
    IN  pbvh_bmesh_node_split(pbvh_bmesh_node_split(P1, children, depth + 1),
                              children + 1, depth + 1)

\* pbvh_bmesh_node_limit_ensure
pbvh_bmesh_node_limit_ensure(P, node_index) ==
  IF Cardinality(P.nodes[node_index].bm_faces) <= P.leaf_limit THEN P
  ELSE pbvh_bmesh_node_split(P, node_index, 0)

Swap(arr, i, j) == [arr EXCEPT ![i] = arr[j], ![j] = arr[i]]

\* the inner loop of the fast partition: from i_iter down to i + 1, look for a
\* face with bcentroid <= mid (a face of low); each face passed over raises
\* num_child2
RECURSIVE FastCandidate(_, _, _, _, _)
FastCandidate(nodeinfo, low, i, i_iter, num_child2) ==
  IF i_iter > i
  THEN IF nodeinfo[i_iter] \in low
       THEN [candidate |-> i_iter, num_child2 |-> num_child2]
       ELSE FastCandidate(nodeinfo, low, i, i_iter - 1, num_child2 + 1)
  ELSE [candidate |-> -1, num_child2 |-> num_child2]

\* the outer loop of the fast partition
RECURSIVE FastPartition(_, _, _, _, _, _)
FastPartition(nodeinfo, low, i, end, num_child1, num_child2) ==
  IF i < end - num_child2
  THEN IF nodeinfo[i] \notin low
       THEN LET s == FastCandidate(nodeinfo, low, i, end - num_child2 - 1, num_child2) IN
            IF s.candidate # -1
            THEN FastPartition(Swap(nodeinfo, i, s.candidate), low, i + 1, end,
                               num_child1 + 1, s.num_child2 + 1)
            ELSE FastPartition(nodeinfo, low, i + 1, end, num_child1, s.num_child2 + 1)
       ELSE FastPartition(nodeinfo, low, i + 1, end, num_child1 + 1, num_child2)
  ELSE [nodeinfo |-> nodeinfo, num_child1 |-> num_child1, num_child2 |-> num_child2]

\* struct FastNodeBuildInfo without children
FastLeaf(start, n) == [start |-> start, totface |-> n, split |-> FALSE]

\* pbvh_bmesh_node_limit_ensure_fast: the result is the reordered nodeinfo
\* array and the build tree below node
RECURSIVE pbvh_bmesh_node_limit_ensure_fast(_, _, _)
pbvh_bmesh_node_limit_ensure_fast(P, nodeinfo, node) ==
  IF node.totface <= P.leaf_limit THEN [nodeinfo |-> nodeinfo, node |-> node]
  ELSE
    LET end == node.start + node.totface
        idx == node.start .. end - 1
        cen == [i \in idx |-> bcentroid2(P, nodeinfo[i])]
        cbmin == Min(Range(cen))
        cbmax == Max(Range(cen))
        \* not (bcentroid[axis] > mid)
        low == {nodeinfo[i] : i \in {j \in idx : 2 * cen[j] <= cbmax + cbmin}}
        part == FastPartition(nodeinfo, low, node.start, end, 0, 0)
        \* ensure at least one child in each node
        num_child1 == IF part.num_child2 = 0 THEN part.num_child1 - 1
                      ELSE IF part.num_child1 = 0 THEN part.num_child1 + 1
                      ELSE part.num_child1
        num_child2 == node.totface - num_child1
        r1 == pbvh_bmesh_node_limit_ensure_fast(P, part.nodeinfo,
                                                FastLeaf(node.start, num_child1))
        r2 == pbvh_bmesh_node_limit_ensure_fast(P, r1.nodeinfo,
                                                FastLeaf(node.start + num_child1, num_child2))
    IN  [nodeinfo |-> r2.nodeinfo,
         node |-> [start |-> node.start, totface |-> node.totface, split |-> TRUE,
                   child1 |-> r1.node, child2 |-> r2.node]]

\* pbvh_bmesh_create_nodes_fast_recursive
RECURSIVE pbvh_bmesh_create_nodes_fast_recursive(_, _, _, _)
pbvh_bmesh_create_nodes_fast_recursive(P, nodeinfo, node, node_index) ==
  IF node.split
  THEN LET children_offset == totnode(P)
           P1 == pbvh_grow_nodes(
                   [P EXCEPT !.nodes[node_index].children_offset = children_offset],
                   children_offset + 2)
           P2 == pbvh_bmesh_create_nodes_fast_recursive(P1, nodeinfo, node.child1,
                                                        children_offset)
       IN  pbvh_bmesh_create_nodes_fast_recursive(P2, nodeinfo, node.child2,
                                                  children_offset + 1)
  ELSE LET fs == {nodeinfo[i] : i \in node.start .. node.start + node.totface - 1}
           P1 == [P EXCEPT !.nodes[node_index] =
                     [@ EXCEPT !.flag = {"PBVH_Leaf", "PBVH_UpdateTris"},
                               !.bm_faces = fs, !.bm_unique_verts = {},
                               !.bm_other_verts = {}]]
           P2 == Fold(LAMBDA Q, i : NodeClaimFace(Q, node_index, nodeinfo[i]), P1,
                      Ascending(node.start .. node.start + node.totface - 1))
           has_visible == \E f \in fs : f \notin P.fhide
       IN  FlagOn(BKE_pbvh_node_fully_hidden_set(P2, node_index, ~has_visible),
                  node_index, {"PBVH_UpdateNormals", "PBVH_UpdateCurvatureDir"})

\* BKE_pbvh_build_bmesh with pbvh->leaf_limit scaled down to leaf_limit: detail
\* sizes, leaf limit, all tags cleared, the fast partition of the face array
\* and the nodes made from it
BuildBmesh(bm, leaf_limit) ==
  LET fs == Ascending(DOMAIN bm.faces)
      nodeinfo == [i \in 0 .. Len(fs) - 1 |-> fs[i + 1]]
      P0 == [co |-> bm.co, mask |-> bm.mask, vhide |-> bm.vhide,
             origco |-> bm.co, stroke_id |-> [v \in DOMAIN bm.co |-> 0],
             faces |-> bm.faces, fhide |-> bm.fhide, seam |-> bm.seam,
             edges |-> (Fold(LAMBDA Q, f : bm_edges_from_tri(Q, bm.faces[f]),
                             [edges |-> << >>], fs)).edges,
             vnode |-> [v \in DOMAIN bm.co |-> DYNTOPO_NODE_NONE],
             fnode |-> [f \in DOMAIN bm.faces |-> DYNTOPO_NODE_NONE],
             nextv |-> Len(bm.co) + 1, nextf |-> Len(bm.faces) + 1,
             nodes |-> [i \in {0} |-> NewNode],
             leaf_limit |-> leaf_limit,
             bm_max_edge_len |-> 0, bm_min_edge_len |-> 0]
      P1 == BKE_pbvh_bmesh_detail_size_set(P0, DetailSize, 2, 5)
      built == pbvh_bmesh_node_limit_ensure_fast(P1, nodeinfo, FastLeaf(0, Len(fs)))
  IN  pbvh_bmesh_create_nodes_fast_recursive(P1, built.nodeinfo, built.node, 0)

\* BKE_pbvh_build_bmesh
BKE_pbvh_build_bmesh(bm) == BuildBmesh(bm, LeafLimit)

------------------------------------------------------------------------------
(* PBVH: vertices and faces entering and leaving the nodes *)

\* pbvh_bmesh_vert_create with v_example = NULL; the new vertex is P.nextv
pbvh_bmesh_vert_create(P, node_index, co) ==
  LET v == P.nextv IN
  [P EXCEPT !.co = Put(@, v, co), !.mask = Put(@, v, 0),
            !.origco = Put(@, v, co), !.stroke_id = Put(@, v, 0),
            !.vnode = Put(@, v, node_index), !.nextv = v + 1,
            !.nodes[node_index].bm_unique_verts = @ \cup {v},
            !.nodes[node_index].flag =
               @ \cup {"PBVH_UpdateDrawBuffers", "PBVH_UpdateBB", "PBVH_UpdateTris"}]

\* the ensure_verts loop body of pbvh_bmesh_face_create
FaceCreateEnsureVert(P, node_index, v) ==
  IF P.vnode[v] = DYNTOPO_NODE_NONE
  THEN [P EXCEPT !.nodes[node_index].bm_unique_verts = @ \cup {v},
                 !.vnode[v] = node_index,
                 !.nodes[node_index].flag =
                    @ \cup {"PBVH_UpdateDrawBuffers", "PBVH_UpdateBB", "PBVH_UpdateTris"}]
  ELSE [P EXCEPT !.nodes[node_index].bm_other_verts = @ \cup {v}]

\* pbvh_bmesh_face_create: the edges of v_tri are there already or are made
\* now; hidden is the BM_ELEM_HIDDEN bit of f_example; the new face is P.nextf
pbvh_bmesh_face_create(P, node_index, v_tri, hidden, ensure_verts) ==
  LET f == P.nextf
      P0 == bm_edges_from_tri(P, v_tri)
      P1 == [P0 EXCEPT !.faces = Put(@, f, v_tri),
                       !.fhide = IF hidden THEN @ \cup {f} ELSE @,
                       !.fnode = Put(@, f, node_index), !.nextf = f + 1,
                       !.nodes[node_index].bm_faces = @ \cup {f},
                       !.nodes[node_index].flag =
                          (@ \cup {"PBVH_UpdateDrawBuffers", "PBVH_UpdateNormals",
                                   "PBVH_UpdateTris"}) \ {"PBVH_FullyHidden"}]
  IN  IF ensure_verts
      THEN Fold(LAMBDA Q, k : FaceCreateEnsureVert(Q, node_index, v_tri[k]), P1, <<1, 2, 3>>)
      ELSE P1

\* pbvh_bmesh_node_vert_use_count_is_equal(pbvh, node, v, 1)
pbvh_bmesh_node_vert_use_count_is_equal_1(P, node, v) ==
  Cardinality({f \in DOMAIN P.faces : v \in FaceVerts(P, f) /\ P.fnode[f] = node}) = 1

\* pbvh_bmesh_vert_other_node_find: the node of the first face of v whose node
\* is not the owner of v; DYNTOPO_NODE_NONE stands for NULL
pbvh_bmesh_vert_other_node_find(P, v) ==
  LET fs == BM_FACES_OF_VERT(P, v)
      hit == {i \in 1 .. Len(fs) : P.fnode[fs[i]] # P.vnode[v]}
  IN  IF hit = {} THEN DYNTOPO_NODE_NONE ELSE P.fnode[fs[Min(hit)]]

\* pbvh_bmesh_vert_ownership_transfer
pbvh_bmesh_vert_ownership_transfer(P, new_owner, v) ==
  LET current_owner == P.vnode[v]
      P0 == IF current_owner # DYNTOPO_NODE_NONE
            THEN [P EXCEPT !.nodes[current_owner].flag =
                              @ \cup {"PBVH_UpdateDrawBuffers", "PBVH_UpdateBB"},
                           !.nodes[current_owner].bm_unique_verts = @ \ {v}]
            ELSE P
  IN  [P0 EXCEPT !.vnode[v] = new_owner,
                 !.nodes[new_owner].bm_unique_verts = @ \cup {v},
                 !.nodes[new_owner].bm_other_verts = @ \ {v},
                 !.nodes[new_owner].flag = @ \cup {"PBVH_UpdateDrawBuffers", "PBVH_UpdateBB"}]

\* pbvh_bmesh_vert_remove: every tagged face of v has its node visited, so
\* skipping a node equal to the previous one changes nothing
pbvh_bmesh_vert_remove(P, v) ==
  LET v_node == P.vnode[v]
      P0 == IF v_node # DYNTOPO_NODE_NONE
            THEN [P EXCEPT !.nodes[v_node].bm_unique_verts = @ \ {v}]
            ELSE P
      f_nodes == {P.fnode[f] : f \in Range(BM_FACES_OF_VERT(P, v))} \ {DYNTOPO_NODE_NONE}
  IN  [P0 EXCEPT !.vnode[v] = DYNTOPO_NODE_NONE,
                 !.nodes = [i \in DOMAIN @ |->
                    IF i \in f_nodes
                    THEN [@[i] EXCEPT
                            !.flag = @ \cup {"PBVH_UpdateDrawBuffers", "PBVH_UpdateBB",
                                             "PBVH_UpdateTris"},
                            !.bm_other_verts = @ \ {v}]
                    ELSE @[i]]]

\* the loop body of pbvh_bmesh_face_remove for vertex v of a face of f_node
FaceRemoveVert(P, f_node, v) ==
  IF pbvh_bmesh_node_vert_use_count_is_equal_1(P, f_node, v)
  THEN IF v \in P.nodes[f_node].bm_unique_verts
       THEN LET new_node == pbvh_bmesh_vert_other_node_find(P, v) IN
            IF new_node # DYNTOPO_NODE_NONE
            THEN pbvh_bmesh_vert_ownership_transfer(P, new_node, v)
            ELSE P
       ELSE [P EXCEPT !.nodes[f_node].bm_other_verts = @ \ {v}]
  ELSE P

\* mutant: the leaf is not marked for a triangle rebuild
FaceRemoveFlags_no_tris == {"PBVH_UpdateDrawBuffers", "PBVH_UpdateNormals"}

\* "mark node for update" at the end of pbvh_bmesh_face_remove
FaceRemoveFlags == {"PBVH_UpdateDrawBuffers", "PBVH_UpdateNormals", "PBVH_UpdateTris"}

\* pbvh_bmesh_face_remove: a face without a node is left alone ("pbvh
\* corruption")
pbvh_bmesh_face_remove(P, f) ==
  LET f_node == P.fnode[f] IN
  IF f_node = DYNTOPO_NODE_NONE THEN P
  ELSE LET P1 == Fold(LAMBDA Q, k : FaceRemoveVert(Q, f_node, P.faces[f][k]), P, <<1, 2, 3>>)
       IN  [P1 EXCEPT !.nodes[f_node].bm_faces = @ \ {f},
                      !.fnode[f] = DYNTOPO_NODE_NONE,
                      !.nodes[f_node].flag = @ \cup FaceRemoveFlags]

------------------------------------------------------------------------------
(* PBVH: loops, lengths and the edge queue *)

Sq(x) == x * x

\* a quotient cut to the coordinate grid (towards zero)
Trunc(a, b) == IF a >= 0 THEN a \div b ELSE -((-a) \div b)

\* BM_edge_calc_length_squared, calc_weighted_edge_split and
\* calc_weighted_edge_collapse (FANCY_EDGE_WEIGHTS is not defined)
len_squared(P, e) == Sq(P.co[P.edges[e][1]] - P.co[P.edges[e][2]])

\* len_v3v3 of the two ends of an edge
edge_len(P, e) == Abs(P.co[P.edges[e][1]] - P.co[P.edges[e][2]])

\* a loop is <<face, position in the face's cycle>>
LoopV(P, l) == P.faces[l[1]][l[2]]
LoopNext(l) == <<l[1], (l[2] % 3) + 1>>
LoopPrev(l) == <<l[1], ((l[2] + 1) % 3) + 1>>
LoopE(P, l) == {LoopV(P, l), LoopV(P, LoopNext(l))}
LoopOfEdge(P, f, e) == <<f, CHOOSE k \in 1 .. 3 : LoopE(P, <<f, k>>) = e>>

\* l->radial_next: the loop of the same edge in the next face around it
RadialNext(P, l) ==
  LET e == LoopE(P, l)
      fs == {f \in DOMAIN P.faces : e \subseteq FaceVerts(P, f)}
      later == {f \in fs : f > l[1]}
  IN  LoopOfEdge(P, IF later = {} THEN Min(fs) ELSE Min(later), e)

\* surface_smooth_v_safe: v->no is perpendicular to the x axis, so the
\* tangent towards a neighbour is the whole difference; the step is
\* DYNTOPO_SAFE_SMOOTH_FAC = 0.05f of the average tangent
surface_smooth_v_safe(P, v) ==
  LET es == BM_EDGES_OF_VERT(P, v)
      tans == [e \in es |-> P.co[CHOOSE v2 \in e : v2 # v] - P.co[v]]
      RECURSIVE Sum(_)
      Sum(S) == IF S = {} THEN 0 ELSE LET e == CHOOSE x \in S : TRUE
                                      IN  tans[e] + Sum(S \ {e})
  IN  IF es = {} THEN P
      ELSE [P EXCEPT !.co[v] = @ + Trunc(Sum(es), 20 * Cardinality(es))]

\* edge_queue_tri_in_sphere over dist_to_tri_sphere_simple: the three
\* vertices, the three edge midpoints and the centroid, all times 6
edge_queue_tri_in_sphere(P, q, f) ==
  LET v1 == P.co[P.faces[f][1]]
      v2 == P.co[P.faces[f][2]]
      v3 == P.co[P.faces[f][3]]
      pts == {6 * v1, 6 * v2, 6 * v3, 3 * (v1 + v2), 3 * (v2 + v3), 3 * (v3 + v1),
              2 * (v1 + v2 + v3)}
  IN  \E p \in pts : Sq(p - 6 * q.center) <= 36 * q.radius_squared

\* edge_thread_data_insert: BM_ELEM_TAG of the edge is set
edge_thread_data_insert(tdata, e) ==
  [tdata EXCEPT !.tag = @ \cup {e}, !.edges = Append(@, e)]

\* long_edge_queue_edge_add_recursive_2 and short_edge_queue_edge_add_recursive_2,
\* which differ in the name of the length function only; limit_len is in
\* thousandths of a length unit, and a length is above the limit exactly when
\* its square is above the limit's square; use_frontface is false, so depth
\* is not looked at
RECURSIVE edge_queue_edge_add_recursive_2(_, _, _, _, _, _)
edge_queue_edge_add_recursive_2(P, tdata, l_edge, l_end, len_sq, limit_len) ==
  IF LoopE(P, l_edge) \in tdata.tag THEN tdata
  ELSE
    LET T1 == edge_thread_data_insert(tdata, LoopE(P, l_edge))
        lim == (limit_len * 11) \div 10
        Adjacent(T, l_adj) ==
          LET len_sq_other == len_squared(P, LoopE(P, l_adj)) IN
          IF 10 * len_sq_other > 12 * len_sq /\ 1000 * edge_len(P, LoopE(P, l_adj)) > lim
          THEN edge_queue_edge_add_recursive_2(P, T, RadialNext(P, l_adj), l_adj,
                                               len_sq_other, lim)
          ELSE T
        RECURSIVE Walk(_, _)
        Walk(T, l_iter) ==
          LET Step(T2) ==
                IF RadialNext(P, l_iter) = l_end THEN T2 ELSE Walk(T2, RadialNext(P, l_iter))
          IN  Step(Adjacent(Adjacent(T, LoopNext(l_iter)), LoopPrev(l_iter)))
    IN  IF RadialNext(P, l_edge) = l_edge THEN T1 ELSE Walk(T1, l_edge)

\* edge_queue_insert; the mask layer is there (cd_vert_mask_offset is not -1)
edge_queue_insert(P, eq, e, priority) ==
  LET v1 == P.edges[e][1]
      v2 == P.edges[e][2]
      dis == edge_len(P, e)
  IN  IF (P.mask[v1] < MaskOne \/ P.mask[v2] < MaskOne)
         /\ ~(v1 \in P.vhide \/ v2 \in P.vhide)
      THEN [eq EXCEPT !.avg_elen = @ + dis,
                      !.max_elen = IF dis > @ THEN dis ELSE @,
                      !.min_elen = IF dis < @ THEN dis ELSE @,
                      !.totedge = @ + 1,
                      !.heap = Append(@, [priority |-> priority, pair |-> <<v1, v2>>])]
      ELSE eq

\* long_edge_queue_edge_add_recursive: no tag is looked at, the edge always
\* goes to edge_queue_insert
RECURSIVE long_edge_queue_edge_add_recursive(_, _, _, _, _, _)
long_edge_queue_edge_add_recursive(P, eq, l_edge, l_end, len_sq, limit_len) ==
  LET lim == (limit_len * 11) \div 10
      Adjacent(E, l_adj) ==
        LET len_sq_other == len_squared(P, LoopE(P, l_adj)) IN
        IF 10 * len_sq_other > 12 * len_sq /\ 1000 * edge_len(P, LoopE(P, l_adj)) > lim
        THEN long_edge_queue_edge_add_recursive(P, E, RadialNext(P, l_adj), l_adj,
                                                len_sq_other, lim)
        ELSE E
      RECURSIVE Walk(_, _)
      Walk(E, l_iter) ==
        LET Step(E2) ==
              IF RadialNext(P, l_iter) = l_end THEN E2 ELSE Walk(E2, RadialNext(P, l_iter))
        IN  Step(Adjacent(Adjacent(E, LoopNext(l_iter)), LoopPrev(l_iter)))
      After(E1) == IF RadialNext(P, l_edge) = l_edge THEN E1 ELSE Walk(E1, l_edge)
  IN  After(edge_queue_insert(P, eq, LoopE(P, l_edge), -len_sq))

\* long_edge_queue_face_add with ignore_frontface
long_edge_queue_face_add(P, eq, f) ==
  IF edge_queue_tri_in_sphere(P, eq.q, f)
  THEN Fold(LAMBDA E, k :
              LET len_sq == len_squared(P, LoopE(P, <<f, k>>)) IN
              IF len_sq > eq.q.limit_len_squared
              THEN long_edge_queue_edge_add_recursive(P, E, RadialNext(P, <<f, k>>), <<f, k>>,
                                                      len_sq, 1000 * eq.q.limit_len)
              ELSE E,
            eq, <<1, 2, 3>>)
  ELSE eq

------------------------------------------------------------------------------
(* PBVH: queue creation, edge split and edge collapse *)

\* the nodes the queue builders and the valence cleanup look at
TopologyNodes(P) ==
  Ascending({n \in DOMAIN P.nodes :
               /\ {"PBVH_Leaf", "PBVH_UpdateTopology"} \subseteq P.nodes[n].flag
               /\ "PBVH_FullyHidden" \notin P.nodes[n].flag})

NodeEdges(P, n) == UNION {TriEdges(P.faces[f]) : f \in P.nodes[n].bm_faces}

\* struct EdgeQueue as the two queue builders fill it
EdgeQueue(center, radius, limit_len) ==
  [center |-> center, radius_squared |-> radius * radius,
   limit_len_squared |-> limit_len * limit_len, limit_len |-> limit_len]

\* the body of the second loop of long_edge_queue_task_cb for face f; A is
\* <<mesh, thread data>>
long_edge_queue_task_face(A, q, f) ==
  LET Add(B, P1, l) ==
        LET len_sq == len_squared(P1, LoopE(P1, l))
        IN  [P |-> P1,
             tdata |-> IF len_sq > q.limit_len_squared
                       THEN edge_queue_edge_add_recursive_2(P1, B.tdata, RadialNext(P1, l), l,
                                                            len_sq, 1000 * q.limit_len)
                       ELSE B.tdata]
      Loop(B, l) == Add(B, surface_smooth_v_safe(B.P, LoopV(B.P, l)), l)
  IN  IF edge_queue_tri_in_sphere(A.P, q, f)
      THEN Fold(LAMBDA B, k : Loop(B, <<f, k>>), A, <<1, 2, 3>>)
      ELSE A

\* long_edge_queue_task_cb for node n; S is <<mesh, thread data>>.  The tasks
\* of BLI_task_parallel_range are run one after the other, in node order
long_edge_queue_task_cb(S, q, n) ==
  Fold(LAMBDA A, f : long_edge_queue_task_face(A, q, f),
       [S EXCEPT !.tdata.tag = @ \ NodeEdges(S.P, n)],
       Ascending(S.P.nodes[n].bm_faces))

\* short_edge_queue_task_cb for node n
short_edge_queue_task_cb(S, q, n) ==
  LET Loop(A, l) ==
        LET len_sq == len_squared(A.P, LoopE(A.P, l)) IN
        [A EXCEPT !.tdata = IF len_sq < q.limit_len_squared
                            THEN edge_queue_edge_add_recursive_2(A.P, @, RadialNext(A.P, l), l,
                                                                 len_sq, 1000 * q.limit_len)
                            ELSE @]
      Face(A, f) ==
        IF edge_queue_tri_in_sphere(A.P, q, f)
        THEN Fold(LAMBDA B, k : Loop(B, <<f, k>>), A, <<1, 2, 3>>)
        ELSE A
  IN  Fold(Face, [S EXCEPT !.tdata.tag = @ \ NodeEdges(S.P, n)],
           Ascending(S.P.nodes[n].bm_faces))

\* long_edge_queue_create: a new heap; the statistics of eq_ctx are kept
long_edge_queue_create(P, eq, center, radius) ==
  LET q == EdgeQueue(center, radius, P.bm_max_edge_len)
      Fill(S) ==
        [P |-> S.P,
         eq |-> Fold(LAMBDA E, e : edge_queue_insert(S.P, E, e, -len_squared(S.P, e)),
                     [eq EXCEPT !.q = q, !.heap = << >>], S.tdata.edges)]
  IN  Fill(Fold(LAMBDA A, n : long_edge_queue_task_cb(A, q, n),
                [P |-> P, tdata |-> [tag |-> {}, edges |-> << >>]], TopologyNodes(P)))

\* short_edge_queue_create
short_edge_queue_create(P, eq, center, radius) ==
  LET q == EdgeQueue(center, radius, P.bm_min_edge_len)
      Fill(S) ==
        [P |-> S.P,
         eq |-> Fold(LAMBDA E, e : edge_queue_insert(S.P, E, e, len_squared(S.P, e)),
                     [eq EXCEPT !.q = q, !.heap = << >>], S.tdata.edges)]
  IN  Fill(Fold(LAMBDA A, n : short_edge_queue_task_cb(A, q, n),
                [P |-> P, tdata |-> [tag |-> {}, edges |-> << >>]], TopologyNodes(P)))

\* BLI_heapsimple_pop_min: the position of the entry that leaves the heap
\* (the first one of the least priority)
HeapMin(heap) ==
  Min({i \in 1 .. Len(heap) : \A j \in 1 .. Len(heap) : heap[i].priority <= heap[j].priority})

HeapRemove(heap, i) == SubSeq(heap, 1, i - 1) \o SubSeq(heap, i + 1, Len(heap))

\* the first new face of a split: v1 and v_new in the order of the old face
SplitTriFirst(v1, v_new, v_opp) == <<v1, v_new, v_opp>>

\* mutant: the second new face winds the other way
SplitTriSecond_flipped(v_new, v2, v_opp) == <<v2, v_new, v_opp>>

\* the second new face of a split: v_new and v2 in the order of the old face
SplitTriSecond(v_new, v2, v_opp) == <<v_new, v2, v_opp>>

\* pbvh_bmesh_split_edge: the result is the mesh and the queue, which
\* long_edge_queue_face_add feeds with the edges of the new faces
pbvh_bmesh_split_edge(P, eq, e) ==
  LET ev1 == P.edges[e][1]
      ev2 == P.edges[e][2]
      fs == BM_FACES_OF_EDGE(P, e)
      node_index == P.vnode[ev1]
      v_new == P.nextv
      P1 == pbvh_bmesh_vert_create(P, node_index, Trunc(P.co[ev1] + P.co[ev2], 2))
      P2 == BM_edge_create(BM_edge_create(P1, ev1, v_new), v_new, ev2)
      \* e1 and e2 take the flags of e
      P3 == [P2 EXCEPT !.mask[v_new] = (P.mask[ev1] + P.mask[ev2]) \div 2,
                       !.seam = IF e \in @ THEN @ \cup {{ev1, v_new}, {v_new, ev2}}
                                ELSE @]
      \* one face around the edge; ni is the node of f_adj
      AdjIn(S, i, f_adj, l_adj, ni) ==
        LET v_opp == LoopV(P, LoopPrev(l_adj))
            v1 == LoopV(P, l_adj)
            v2 == LoopV(P, LoopNext(l_adj))
            Own(A) ==
              IF ni # node_index /\ i = 1
              THEN [A EXCEPT !.P = pbvh_bmesh_vert_ownership_transfer(@, ni, v_new)]
              ELSE A
            Queued(Q, eq0, f_new) == [P |-> Q, eq |-> long_edge_queue_face_add(Q, eq0, f_new)]
            Face(A, v_tri) ==
              Queued(pbvh_bmesh_face_create(A.P, ni, v_tri, f_adj \in P.fhide, FALSE),
                     A.eq, A.P.nextf)
            Ensure(Q3, eq0) ==
              [P |-> IF v_new \notin Q3.nodes[ni].bm_unique_verts
                     THEN [Q3 EXCEPT !.nodes[ni].bm_other_verts = @ \cup {v_new}]
                     ELSE Q3,
               eq |-> eq0]
            Remove(A) == Ensure(BM_face_kill(pbvh_bmesh_face_remove(A.P, f_adj), f_adj), A.eq)
        IN  Remove(Face(Face(Own(S), SplitTriFirst(v1, v_new, v_opp)),
                        SplitTriSecond(v_new, v2, v_opp)))
      Adj(S, i) == AdjIn(S, i, fs[i], LoopOfEdge(P, fs[i], e), S.P.fnode[fs[i]])
      End(S) == [P |-> BM_edge_kill(S.P, e), eq |-> S.eq]
  IN  End(Fold(Adj, [P |-> P3, eq |-> eq], Ascending(1 .. Len(fs))))

\* bm_vert_hash_lookup_chain; 0 stands for NULL
RECURSIVE bm_vert_hash_lookup_chain(_, _)
bm_vert_hash_lookup_chain(deleted_verts, v) ==
  IF v \notin DOMAIN deleted_verts THEN v
  ELSE IF deleted_verts[v] = 0 THEN 0
  ELSE bm_vert_hash_lookup_chain(deleted_verts, deleted_verts[v])

\* bm_face_exists_tri_from_loop_vert: the first face around the edge of
\* l_radial_first, after its own, whose third vertex is v_opposite; 0 for NULL
bm_face_exists_tri_from_loop_vert(P, l_radial_first, v_opposite) ==
  LET e == LoopE(P, l_radial_first)
      gs == {g \in DOMAIN P.faces : g # l_radial_first[1]
                                    /\ FaceVerts(P, g) = e \cup {v_opposite}}
      later == {g \in gs : g > l_radial_first[1]}
  IN  IF gs = {} THEN 0 ELSE IF later = {} THEN Min(gs) ELSE Min(later)


\* the loop of pbvh_bmesh_collapse_edge over the faces left at v_del: the
\* face is made again with v_conn in place of v_del, unless such a face is
\* there already; S is <<mesh, deleted_faces>> and l the loop of v_del
CollapseReplaceFace(S, l, v_conn) ==
  LET f == l[1]
      v_tri == <<v_conn, LoopV(S.P, LoopNext(l)), LoopV(S.P, LoopPrev(l))>>
      ni == S.P.fnode[f]
      \* "sync edge flags": the first edge of the new face takes the flags of
      \* the edge of l
      Sync(Q1) ==
        IF LoopE(S.P, l) \in Q1.seam
        THEN [Q1 EXCEPT !.seam = @ \cup {{v_conn, v_tri[2]}}]
        ELSE Q1
      Ensure(Q1) ==
        IF v_conn \notin Q1.nodes[ni].bm_unique_verts
        THEN [Q1 EXCEPT !.nodes[ni].bm_other_verts = @ \cup {v_conn}]
        ELSE Q1
      Made(Q1) ==
        [P |-> Ensure(Sync(Q1)), deleted_faces |-> Append(S.deleted_faces, f)]
      Replace(existing_face) ==
        IF existing_face # 0
        THEN [S EXCEPT !.deleted_faces =
                          (IF existing_face \in Range(@) THEN @ ELSE Append(@, existing_face))
                          \o <<f>>]
        ELSE Made(pbvh_bmesh_face_create(S.P, ni, v_tri, f \in S.P.fhide, FALSE))
  IN  Replace(bm_face_exists_tri_from_loop_vert(S.P, LoopNext(l), v_conn))

\* mutant: the deletion is not recorded
BLI_ghash_insert_dropped(deleted_verts, key, val) == deleted_verts

\* BLI_ghash_insert(deleted_verts, key, val) of pbvh_bmesh_collapse_edge; 0
\* stands for NULL
BLI_ghash_insert(deleted_verts, key, val) == Put(deleted_verts, key, val)

\* the loop of pbvh_bmesh_collapse_edge over deleted_faces; S is <<mesh,
\* deleted_verts, v_conn>>, with 0 for a v_conn that is NULL
CollapseDeleteFace(S, f_del, v_del) ==
  LET v_tri == S.P.faces[f_del]
      e_tri == <<{v_tri[1], v_tri[2]}, {v_tri[2], v_tri[3]}, {v_tri[3], v_tri[1]}>>
      Q1 == BM_face_kill(pbvh_bmesh_face_remove(S.P, f_del), f_del)
      Q2 == Fold(LAMBDA Q, j : IF BM_edge_is_wire(Q, e_tri[j]) THEN BM_edge_kill(Q, e_tri[j])
                               ELSE Q,
                 Q1, <<1, 2, 3>>)
      Vert(A, j) ==
        IF v_tri[j] # v_del /\ BM_EDGES_OF_VERT(A.P, v_tri[j]) = {}
        THEN [P |-> BM_vert_kill(pbvh_bmesh_vert_remove(A.P, v_tri[j]), v_tri[j]),
              deleted_verts |-> BLI_ghash_insert(A.deleted_verts, v_tri[j], 0),
              v_conn |-> IF v_tri[j] = A.v_conn THEN 0 ELSE A.v_conn]
        ELSE A
  IN  Fold(Vert, [S EXCEPT !.P = Q2], <<1, 2, 3>>)

\* the edges of v that carry BM_ELEM_SEAM
SeamEdgesOfVert(P, v) == {e2 \in BM_EDGES_OF_VERT(P, v) : e2 \in P.seam}

\* mutant: no seam edge is held back
collapse_seam_skips_never(P, e, v1, v2) == FALSE

\* the check at the head of pbvh_bmesh_collapse_edge: a seam edge with an end
\* vertex that has fewer than 2 seam edges is left alone
collapse_seam_skips(P, e, v1, v2) ==
  /\ e \in P.seam
  /\ \/ Cardinality(SeamEdgesOfVert(P, v1)) < 2
     \/ Cardinality(SeamEdgesOfVert(P, v2)) < 2

\* "propegate flags to merged edges": the flags of the other two edges of a
\* face of e are set on all three edges of the face
CollapseSpreadFlags(P, e, f) ==
  IF (TriEdges(P.faces[f]) \ {e}) \cap P.seam # {}
  THEN [P EXCEPT !.seam = @ \cup TriEdges(P.faces[f])]
  ELSE P

\* pbvh_bmesh_collapse_edge; the result is the mesh and deleted_verts
pbvh_bmesh_collapse_edge(P, e, v1, v2, deleted_verts) ==
  LET v_del == IF P.mask[v1] < P.mask[v2] THEN v1 ELSE v2
      v_conn == IF P.mask[v1] < P.mask[v2] THEN v2 ELSE v1
      \* the faces of the edge go, then the edge
      KillFace(Q, f) ==
        BM_face_kill(pbvh_bmesh_face_remove(CollapseSpreadFlags(Q, e, f), f), f)
      KillAdjacent(P1) ==
        BM_edge_kill(Fold(KillFace, P1, BM_FACES_OF_EDGE(P1, e)), e)
      \* the loops of v_del
      Loops(P3, fs) ==
        [i \in 1 .. Len(fs) |-> <<fs[i], CHOOSE k \in 1 .. 3 : P3.faces[fs[i]][k] = v_del>>]
      Replace(P3) ==
        Fold(LAMBDA S, l : CollapseReplaceFace(S, l, v_conn),
             [P |-> P3, deleted_faces |-> << >>], Loops(P3, BM_FACES_OF_VERT(P3, v_del)))
      Delete(S1) ==
        Fold(LAMBDA S, f_del : CollapseDeleteFace(S, f_del, v_del),
             [P |-> S1.P, deleted_verts |-> deleted_verts, v_conn |-> v_conn],
             S1.deleted_faces)
      \* v_conn, when it is still there, moves to the midpoint
      Move(S2, f_nodes) ==
        IF S2.v_conn # 0
        THEN [S2.P EXCEPT
                !.co[S2.v_conn] = Trunc(@ + S2.P.co[v_del], 2),
                !.nodes = [i \in DOMAIN @ |->
                   IF i \in f_nodes
                   THEN [@[i] EXCEPT !.flag = @ \cup {"PBVH_UpdateDrawBuffers",
                                                      "PBVH_UpdateNormals",
                                                      "PBVH_UpdateBB", "PBVH_UpdateTris"}]
                   ELSE @[i]]]
        ELSE S2.P
      End(S2) ==
        [P |-> BM_vert_kill(
                 Move(S2, {S2.P.fnode[f] : f \in Range(BM_FACES_OF_VERT(S2.P, S2.v_conn))}),
                 v_del),
         deleted_verts |-> BLI_ghash_insert(S2.deleted_verts, v_del, S2.v_conn)]
  IN  IF collapse_seam_skips(P, e, v1, v2)
      THEN [P |-> P, deleted_verts |-> deleted_verts]
      ELSE End(Delete(Replace(KillAdjacent(pbvh_bmesh_vert_remove(P, v_del)))))

------------------------------------------------------------------------------
(* PBVH: valence cleanup *)

\* v->e->l: the first loop of the first edge of v (oldest elements first);
\* <<0, 0>> for NULL
FirstLoopOfVert(P, v) ==
  LET es == BM_EDGES_OF_VERT(P, v)
      e == CHOOSE x \in es : \A y \in es : Max(x \ {v}) <= Max(y \ {v})
      fs == BM_FACES_OF_EDGE(P, e)
  IN  IF fs = << >> THEN <<0, 0>> ELSE LoopOfEdge(P, fs[1], e)

\* "if (l->v != v) l = l->next"
LoopAtVert(P, l, v) == IF LoopV(P, l) # v THEN LoopNext(l) ELSE l

\* the walk of cleanup_valence_3_4 around v from loop l, for j = Len(ls) up
\* to val - 1; the result is ls and bad
RECURSIVE CleanupWalk(_, _, _, _, _, _)
CleanupWalk(P, v, val, l, ls, bad) ==
  IF Len(ls) = val THEN [ls |-> ls, bad |-> bad]
  ELSE
    LET ls_j == IF LoopV(P, l) = v THEN LoopNext(l) ELSE l
        \* for (k < j): ls[j] may step on; bad is never taken back
        Earlier(A, k) ==
          IF A.stop THEN A
          ELSE LET same_v == LoopV(P, ls[k]) = LoopV(P, A.ls_j)
                   stepped == IF same_v /\ LoopV(P, LoopNext(A.ls_j)) # v
                              THEN LoopNext(A.ls_j) ELSE A.ls_j
               IN  IF same_v /\ LoopV(P, LoopNext(A.ls_j)) = v
                   THEN [A EXCEPT !.bad = TRUE, !.stop = TRUE]
                   ELSE IF ls[k][1] = stepped[1]
                   THEN [ls_j |-> stepped, bad |-> TRUE, stop |-> TRUE]
                   ELSE [A EXCEPT !.ls_j = stepped]
        Go(l1, R) == CleanupWalk(P, v, val, l1, Append(ls, R.ls_j), R.bad)
        On(l1) ==
          IF RadialNext(P, l1) = l1 \/ RadialNext(P, RadialNext(P, l1)) # l1
          THEN [ls |-> Append(ls, ls_j), bad |-> TRUE]
          ELSE Go(l1, Fold(Earlier, [ls_j |-> ls_j, bad |-> bad, stop |-> FALSE],
                           Ascending(1 .. Len(ls))))
    IN  On(LoopAtVert(P, RadialNext(P, LoopPrev(l)), v))

\* the body of cleanup_valence_3_4 for vertex v of node n; S is <<mesh,
\* modified>>.  vs[3] is read before anything is stored in it: vs3_differs is
\* what the two comparisons with it give
CleanupVert(S, n, v, center, radius, vs3_differs) ==
  LET P == S.P
      Detach(Q, f) ==
        LET ni2 == Q.fnode[f] IN
        IF ni2 # DYNTOPO_NODE_NONE
        THEN pbvh_bmesh_face_remove(
               [Q EXCEPT !.nodes[ni2].bm_unique_verts = @ \ {v},
                         !.nodes[ni2].bm_other_verts = @ \ {v}], f)
        ELSE Q
      DetachAll(P1) == Fold(Detach, P1, BM_FACES_OF_VERT(P1, v))
      First(P2, vs, hidden) ==
        IF vs[1] # vs[2] /\ vs[2] # vs[3] /\ vs[1] # vs[3]
        THEN pbvh_bmesh_face_create(P2, n, <<vs[1], vs[2], vs[3]>>, hidden, FALSE)
        ELSE P2
      Second(P3, val, vs, hidden) ==
        IF val = 4 /\ vs[1] # vs[3] /\ vs3_differs
        THEN pbvh_bmesh_face_create(P3, n, <<vs[1], vs[3], vs[4]>>, hidden, FALSE)
        ELSE P3
      Faces(val, vs, hidden) ==
        [P |-> BM_vert_kill(
                 Second(First(DetachAll(pbvh_bmesh_vert_remove(P, v)), vs, hidden),
                        val, vs, hidden), v),
         modified |-> TRUE]
      Walked(val, l, W) ==
        IF W.bad THEN S
        ELSE Faces(val, [i \in 1 .. val |-> LoopV(P, W.ls[i])], l[1] \in P.fhide)
      Around(val, l) ==
        IF val < 3 \/ val > 4 THEN S
        ELSE IF l = <<0, 0>> THEN S
        ELSE Walked(val, l, CleanupWalk(P, v, val, LoopAtVert(P, l, v), << >>, FALSE))
  IN  IF 16 * Sq(P.co[v] - center) >= 25 * Sq(radius) THEN S
      ELSE Around(BM_vert_edge_count(P, v), FirstLoopOfVert(P, v))

\* cleanup_valence_3_4: the unique vertices of a node are walked oldest
\* first; a vertex that leaves the set before its turn is passed over and one
\* that enters it is visited
cleanup_valence_3_4(P, center, radius, vs3_differs) ==
  LET RECURSIVE Verts(_, _, _)
      Verts(S, n, visited) ==
        LET todo == S.P.nodes[n].bm_unique_verts \ visited IN
        IF todo = {} THEN S
        ELSE Verts(CleanupVert(S, n, Min(todo), center, radius, vs3_differs), n,
                   visited \cup {Min(todo)})
      Node(S, n) ==
        IF /\ {"PBVH_Leaf", "PBVH_UpdateTopology"} \subseteq S.P.nodes[n].flag
           /\ "PBVH_FullyHidden" \notin S.P.nodes[n].flag
        THEN Verts(S, n, {})
        ELSE S
  IN  Fold(Node, [P |-> P, modified |-> FALSE], Ascending(DOMAIN P.nodes))

------------------------------------------------------------------------------
(* PBVH: BKE_pbvh_bmesh_update_topology, one step at a time *)

\* the arguments the calls are made with
Modes ==
  {{"PBVH_Collapse"}, {"PBVH_Subdivide"}, {"PBVH_Cleanup"},
   {"PBVH_Collapse", "PBVH_Subdivide", "PBVH_Cleanup"}}
\* the modes of the calls of a stroke that is ended
StrokeModes == {{"PBVH_Collapse", "PBVH_Subdivide", "PBVH_Cleanup"}}
Centers == {96}
Radii == {32, 400}

NoArgs == [mode |-> {}, center |-> 0, radius |-> 0, updatePBVH |-> FALSE]

\* EdgeQueueContext as BKE_pbvh_bmesh_update_topology sets it up; -1e17 and
\* 1e17 are any lengths below and above every edge length
EdgeQueueContext ==
  [q |-> EdgeQueue(0, 0, 0), heap |-> << >>, avg_elen |-> 0, max_elen |-> -1000000,
   min_elen |-> 1000000, totedge |-> 0]

\* the locals of BKE_pbvh_bmesh_update_topology and of the pass it is in
Locals ==
  [ratio |-> <<1, 1>>, max_steps |-> 0, step |-> 0, any |-> FALSE, modified |-> FALSE,
   deleted_verts |-> << >>]

NoHistory ==
  [calls |-> 0, last |-> "build", popped |-> 0, max_steps |-> 0, modified |-> FALSE,
   mode |-> {}, updatePBVH |-> FALSE, totnode |-> 0, within_limit |-> TRUE,
   short |-> {}, short_faces |-> {}, queries |-> 0, kills |-> 0, strokes |-> 0,
   node |-> DYNTOPO_NODE_NONE, merged |-> {}, rays |-> 0,
   ray |-> [stroke_id |-> 0, use_original |-> FALSE], tested |-> << >>,
   seen |-> << >>, again |-> {}, writes |-> << >>, first |-> << >>,
   removes |-> 0,
   removal |-> [face |-> 0, tag |-> DYNTOPO_NODE_NONE, printed |-> << >>,
                logged |-> << >>],
   topo |-> << >>]

\* the elements of the mesh: its vertices, edges and faces
Topology(P) == [verts |-> DOMAIN P.vnode, edges |-> DOMAIN P.edges, faces |-> P.faces]

\* the stage that follows stage s of a call with the given mode
StageAfter(mode, s) ==
  IF s = "begin" /\ "PBVH_Collapse" \in mode THEN "collapse_create"
  ELSE IF s \in {"begin", "collapse"} /\ "PBVH_Subdivide" \in mode THEN "subdivide_create"
  ELSE IF s \in {"begin", "collapse", "subdivide"} /\ "PBVH_Cleanup" \in mode THEN "cleanup"
  ELSE "finish"

LeafNodes(P) == {n \in DOMAIN P.nodes : IsLeaf(P, n)}

FlaggedLeaves(P) ==
  {n \in LeafNodes(P) : "PBVH_UpdateTopology" \in P.nodes[n].flag}

WithinLeafLimit(P) ==
  \A n \in LeafNodes(P) : Cardinality(P.nodes[n].bm_faces) <= P.leaf_limit

\* mutant: the collapse ratio without MAX2 and MIN2
CollapseRatio_unclamped(P, eq, ratio) ==
  IF eq.totedge > 0 /\ P.bm_min_edge_len > 0 /\ eq.avg_elen > 0
  THEN <<2 * eq.avg_elen, eq.totedge * (P.bm_min_edge_len + eq.max_elen)>>
  ELSE ratio

\* the SKINNY_EDGE_FIX ratio of the collapse pass, as a fraction: avg_elen /
\* (bm_min_edge_len * 0.5 + emax * 0.5), kept within [0.25, 5]
CollapseRatio(P, eq, ratio) ==
  LET raw == <<2 * eq.avg_elen, eq.totedge * (P.bm_min_edge_len + eq.max_elen)>>
  IN  IF eq.totedge > 0 /\ P.bm_min_edge_len > 0 /\ eq.avg_elen > 0
      THEN IF 4 * raw[1] < raw[2] THEN <<1, 4>>
           ELSE IF raw[1] > 5 * raw[2] THEN <<5, 1>>
           ELSE raw
      ELSE ratio

\* the ratio of the subdivide pass: (bm_max_edge_len * 0.5 + emin * 0.5) /
\* avg_elen, kept within [0.05, 1]; an emin of 0 counts as 0.0001f, which is
\* 1 / 125 of a length unit
SubdivideRatio(P, eq, ratio) ==
  LET raw == <<(IF eq.min_elen = 0 THEN 125 * P.bm_max_edge_len + 1
                ELSE 125 * (P.bm_max_edge_len + eq.min_elen)) * eq.totedge,
               250 * eq.avg_elen>>
  IN  IF eq.totedge > 0 /\ eq.avg_elen > 0
      THEN IF 20 * raw[1] < raw[2] THEN <<1, 20>>
           ELSE IF raw[1] > raw[2] THEN <<1, 1>>
           ELSE raw
      ELSE ratio

\* (int)((float)DYNTOPO_MAX_ITER * ratio)
MaxSteps(ratio) == (MaxIter * ratio[1]) \div ratio[2]

\* BKE_pbvh_node_mark_topology_update, on a leaf as
\* BKE_pbvh_bmesh_update_topology_nodes calls it
BKE_pbvh_node_mark_topology_update(n) ==
  /\ pc = "idle"
  /\ hist.calls < MaxCalls
  /\ n \in LeafNodes(pbvh)
  /\ "PBVH_UpdateTopology" \notin pbvh.nodes[n].flag
  /\ pbvh' = FlagOn(pbvh, n, {"PBVH_UpdateTopology"})
  /\ hist' = [hist EXCEPT !.last = "mark"]
  /\ UNCHANGED <<pc, args, eq_ctx, loc, curveVars, editorVars>>

\* the edges a collapse pass is there for: shorter than bm_min_edge_len, on a
\* face within the brush range of a leaf the queue builder looks at, with an
\* end that is not fully masked and no hidden end, and not held back by the
\* seam check
ShortEdgesInRange(P, center, radius) ==
  {e \in DOMAIN P.edges :
     /\ len_squared(P, e) < Sq(P.bm_min_edge_len)
     /\ \E v \in e : P.mask[v] < MaskOne
     /\ e \cap P.vhide = {}
     /\ ~collapse_seam_skips(P, e, P.edges[e][1], P.edges[e][2])
     /\ \E n \in Range(TopologyNodes(P)) : \E f \in P.nodes[n].bm_faces :
          /\ e \subseteq FaceVerts(P, f)
          /\ edge_queue_tri_in_sphere(P, EdgeQueue(center, radius, P.bm_min_edge_len), f)}

\* BKE_pbvh_bmesh_update_topology up to the first pass
UpdateTopologyBegin(mode, center, radius, updatePBVH) ==
  /\ pc = "idle"
  /\ hist.calls < MaxCalls
  /\ args' = [mode |-> mode, center |-> center, radius |-> radius,
              updatePBVH |-> updatePBVH]
  /\ eq_ctx' = EdgeQueueContext
  /\ loc' = Locals
  /\ pc' = StageAfter(mode, "begin")
  /\ hist' = [hist EXCEPT !.last = "call", !.mode = mode, !.updatePBVH = updatePBVH,
                          !.popped = 0, !.max_steps = 0,
                          !.topo = Topology(pbvh),
                          !.within_limit = WithinLeafLimit(pbvh),
                          !.short = IF mode = {"PBVH_Collapse"}
                                    THEN ShortEdgesInRange(pbvh, center, radius)
                                    ELSE {},
                          !.short_faces =
                             IF mode = {"PBVH_Collapse"}
                             THEN {f \in DOMAIN pbvh.faces :
                                     \E e \in ShortEdgesInRange(pbvh, center, radius) :
                                       e \subseteq FaceVerts(pbvh, f)}
                             ELSE {}]
  /\ UNCHANGED <<pbvh, curveVars, editorVars>>

\* short_edge_queue_create, the ratio and max_steps of the collapse pass
CollapseCreate ==
  /\ pc = "collapse_create"
  /\ LET Pass(ratio) ==
           /\ loc' = [loc EXCEPT !.ratio = ratio, !.max_steps = MaxSteps(ratio), !.step = 0,
                                 !.any = FALSE, !.deleted_verts = << >>]
           /\ hist' = [hist EXCEPT !.popped = 0, !.max_steps = MaxSteps(ratio)]
         Queue(R) ==
           /\ pbvh' = R.P
           /\ eq_ctx' = R.eq
           /\ Pass(CollapseRatio(R.P, R.eq, loc.ratio))
     IN  Queue(short_edge_queue_create(pbvh, eq_ctx, args.center, args.radius))
  /\ pc' = "collapse"
  /\ UNCHANGED <<args, curveVars, editorVars>>

\* long_edge_queue_create, the ratio and max_steps of the subdivide pass
SubdivideCreate ==
  /\ pc = "subdivide_create"
  /\ LET Pass(ratio) ==
           /\ loc' = [loc EXCEPT !.ratio = ratio, !.max_steps = MaxSteps(ratio), !.step = 0,
                                 !.any = FALSE]
           /\ hist' = [hist EXCEPT !.popped = 0, !.max_steps = MaxSteps(ratio)]
         Queue(R) ==
           /\ pbvh' = R.P
           /\ eq_ctx' = R.eq
           /\ Pass(SubdivideRatio(R.P, R.eq, loc.ratio))
     IN  Queue(long_edge_queue_create(pbvh, eq_ctx, args.center, args.radius))
  /\ pc' = "subdivide"
  /\ UNCHANGED <<args, curveVars, editorVars>>


\* one turn of the loop of pbvh_bmesh_collapse_short_edges, or its end
CollapseStep ==
  /\ pc = "collapse"
  /\ IF eq_ctx.heap = << >> \/ loc.step > loc.max_steps
     THEN \* the heap is empty, or "if (step++ > max_steps) break"
          /\ loc' = [loc EXCEPT !.step = IF eq_ctx.heap = << >> THEN @ ELSE @ + 1,
                                !.modified = @ \/ loc.any]
          /\ pc' = StageAfter(args.mode, "collapse")
          /\ UNCHANGED <<pbvh, eq_ctx, hist>>
     ELSE LET Collapsed(R) ==
                /\ pbvh' = R.P
                /\ loc' = [loc EXCEPT !.step = @ + 1, !.any = TRUE,
                                      !.deleted_verts = R.deleted_verts]
              Edge(v1, v2) ==
                IF /\ v1 # 0 /\ v2 # 0 /\ v1 # v2
                   /\ BM_edge_exists(pbvh, v1, v2)
                   /\ ~(len_squared(pbvh, {v1, v2}) >= Sq(pbvh.bm_min_edge_len))
                   /\ pbvh.vnode[v1] # DYNTOPO_NODE_NONE
                   /\ pbvh.vnode[v2] # DYNTOPO_NODE_NONE
                THEN Collapsed(pbvh_bmesh_collapse_edge(pbvh, {v1, v2}, v1, v2,
                                                        loc.deleted_verts))
                ELSE /\ pbvh' = pbvh
                     /\ loc' = [loc EXCEPT !.step = @ + 1]
              Pop(i) ==
                /\ eq_ctx' = [eq_ctx EXCEPT !.heap = HeapRemove(@, i)]
                /\ Edge(bm_vert_hash_lookup_chain(loc.deleted_verts, eq_ctx.heap[i].pair[1]),
                        bm_vert_hash_lookup_chain(loc.deleted_verts, eq_ctx.heap[i].pair[2]))
          IN  /\ Pop(HeapMin(eq_ctx.heap))
              /\ hist' = [hist EXCEPT !.popped = @ + 1]
              /\ pc' = pc
  /\ UNCHANGED <<args, curveVars, editorVars>>

\* one turn of the loop of pbvh_bmesh_subdivide_long_edges, or its end
SubdivideStep ==
  /\ pc = "subdivide"
  /\ IF eq_ctx.heap = << >> \/ loc.step > loc.max_steps
     THEN /\ loc' = [loc EXCEPT !.step = IF eq_ctx.heap = << >> THEN @ ELSE @ + 1,
                                !.modified = @ \/ loc.any]
          /\ pc' = StageAfter(args.mode, "subdivide")
          /\ UNCHANGED <<pbvh, eq_ctx, hist>>
     ELSE LET Split(R) ==
                /\ pbvh.nextv <= MaxVerts
                /\ eq_ctx' = R.eq
                /\ pbvh' = R.P
                /\ loc' = [loc EXCEPT !.step = @ + 1, !.any = TRUE]
              Edge(eq, v1, v2) ==
                IF /\ BM_edge_exists(pbvh, v1, v2)
                   /\ pbvh.vnode[v1] # DYNTOPO_NODE_NONE
                   /\ pbvh.vnode[v2] # DYNTOPO_NODE_NONE
                THEN Split(pbvh_bmesh_split_edge(pbvh, eq, {v1, v2}))
                ELSE /\ eq_ctx' = eq
                     /\ pbvh' = pbvh
                     /\ loc' = [loc EXCEPT !.step = @ + 1]
              Pop(i) ==
                Edge([eq_ctx EXCEPT !.heap = HeapRemove(@, i)],
                     eq_ctx.heap[i].pair[1], eq_ctx.heap[i].pair[2])
          IN  /\ Pop(HeapMin(eq_ctx.heap))
              /\ hist' = [hist EXCEPT !.popped = @ + 1]
              /\ pc' = pc
  /\ UNCHANGED <<args, curveVars, editorVars>>

\* the cleanup_valence_3_4 call
Cleanup ==
  /\ pc = "cleanup"
  /\ \E vs3_differs \in BOOLEAN :
       LET Cleaned(R) ==
             /\ pbvh' = R.P
             /\ loc' = [loc EXCEPT !.modified = @ \/ R.modified]
       IN  Cleaned(cleanup_valence_3_4(pbvh, args.center, args.radius, vs3_differs))
  /\ pc' = "finish"
  /\ UNCHANGED <<args, eq_ctx, hist, curveVars, editorVars>>

\* mutant: the flag is cleared only on the leaves that are re-split
UnmarkNode_keep_flag(P, i, updatePBVH) ==
  IF /\ {"PBVH_Leaf", "PBVH_UpdateTopology"} \subseteq P.nodes[i].flag
     /\ "PBVH_FullyHidden" \notin P.nodes[i].flag
     /\ updatePBVH
  THEN pbvh_bmesh_node_limit_ensure(FlagOff(P, i, {"PBVH_UpdateTopology"}), i)
  ELSE P

\* the body of the loop that ends BKE_pbvh_bmesh_update_topology when the
\* mesh was modified
UnmarkNode(P, i, updatePBVH) ==
  IF /\ {"PBVH_Leaf", "PBVH_UpdateTopology"} \subseteq P.nodes[i].flag
     /\ "PBVH_FullyHidden" \notin P.nodes[i].flag
  THEN IF updatePBVH
       THEN pbvh_bmesh_node_limit_ensure(FlagOff(P, i, {"PBVH_UpdateTopology"}), i)
       ELSE FlagOff(P, i, {"PBVH_UpdateTopology"})
  ELSE P

\* the loop of the other branch: "still unmark nodes"
UnmarkLeaves(P) ==
  [P EXCEPT !.nodes = [i \in DOMAIN @ |->
     IF "PBVH_Leaf" \in @[i].flag THEN [@[i] EXCEPT !.flag = @ \ {"PBVH_UpdateTopology"}]
     ELSE @[i]]]

\* the end of BKE_pbvh_bmesh_update_topology and its return
UpdateTopologyReturn ==
  /\ pc = "finish"
  /\ pbvh' = IF loc.modified
             THEN Fold(LAMBDA P, i : UnmarkNode(P, i, args.updatePBVH), pbvh,
                       Ascending(0 .. totnode(pbvh) - 1))
             ELSE UnmarkLeaves(pbvh)
  /\ hist' = [hist EXCEPT !.calls = @ + 1, !.last = "return", !.modified = loc.modified,
                          !.totnode = totnode(pbvh), !.topo = << >>]
  /\ pc' = "idle"
  /\ args' = NoArgs
  /\ eq_ctx' = EdgeQueueContext
  /\ loc' = Locals
  /\ UNCHANGED <<curveVars, editorVars>>

\* the curve tool is not running
NoCurve ==
  /\ gpf_strokes = << >>
  /\ strokes_before = << >>
  /\ gps = 0
  /\ cpts = << >>
  /\ state = "IN_MOVE"
  /\ imval = <<0, 0>>
  /\ imval_start = <<0, 0>>
  /\ is_mouse_down = FALSE
  /\ is_cyclic = FALSE
  /\ prev_pressure = 0
  /\ status = "idle"
  /\ ev = "none"
  /\ pre_state = "IN_MOVE"
  /\ pre_n = 0
  /\ n_events = 0
  /\ replaced = FALSE
  /\ scenario = <<0, <<0, 0>>>>
  /\ imval_press = <<0, 0>>
  /\ pending = FALSE

\* BKE_pbvh_build_bmesh of one of the input meshes
InitPbvh ==
  /\ NoCurve
  /\ NoEditors
  /\ \E bm \in Meshes : pbvh = BKE_pbvh_build_bmesh(bm)
  /\ pc = "idle"
  /\ args = NoArgs
  /\ eq_ctx = EdgeQueueContext
  /\ loc = Locals
  /\ hist = NoHistory

NextPbvh ==
  \/ \E n \in DOMAIN pbvh.nodes : BKE_pbvh_node_mark_topology_update(n)
  \/ \E mode \in Modes, center \in Centers, radius \in Radii, updatePBVH \in BOOLEAN :
       UpdateTopologyBegin(mode, center, radius, updatePBVH)
  \/ CollapseCreate
  \/ CollapseStep
  \/ SubdivideCreate
  \/ SubdivideStep
  \/ Cleanup
  \/ UpdateTopologyReturn

SpecPbvh == InitPbvh /\ [][NextPbvh]_vars


------------------------------------------------------------------------------
(* PBVH: triangle buffers, face kill and BKE_pbvh_bmesh_after_stroke *)

\* pbvh->leaf_limit of the runs that end a stroke: 1000 in the program, scaled
\* down
StrokeLeafLimit == 3

\* most BKE_pbvh_bmesh_get_tris calls of one run
MaxQueries == 2

\* most BKE_pbvh_bmesh_face_kill calls of one run
MaxKills == 3

\* most BKE_pbvh_bmesh_after_stroke calls of one run
MaxStrokes == 1

\* BLI_ghash_ensure_p(vmap, l->v) with the append that follows a miss
TribufVert(tb, v) ==
  IF \E i \in 1 .. Len(tb.verts) : tb.verts[i] = v THEN tb
  ELSE [tb EXCEPT !.verts = Append(@, v)]

\* the value vmap holds for v: its position in tribuf->verts, from 0
TribufIndex(tb, v) == (CHOOSE i \in 1 .. Len(tb.verts) : tb.verts[i] = v) - 1

\* the body of the face loop of BKE_pbvh_bmesh_check_tris: the three corners
\* are looked up or added in loop order, then the triangle is appended
TribufFace(P, tb, f) ==
  LET Tri(t) ==
        [t EXCEPT !.tris = Append(@, [v |-> <<TribufIndex(t, P.faces[f][1]),
                                              TribufIndex(t, P.faces[f][2]),
                                              TribufIndex(t, P.faces[f][3])>>,
                                      f |-> f])]
  IN  Tri(TribufVert(TribufVert(TribufVert(tb, P.faces[f][1]), P.faces[f][2]),
                     P.faces[f][3]))

\* BKE_pbvh_bmesh_check_tris
BKE_pbvh_bmesh_check_tris(P, node) ==
  IF "PBVH_UpdateTris" \notin P.nodes[node].flag /\ P.nodes[node].tribuf.alloc THEN P
  ELSE [P EXCEPT !.nodes[node].flag = @ \ {"PBVH_UpdateTris"},
                 !.nodes[node].tribuf =
                    Fold(LAMBDA tb, f : TribufFace(P, tb, f),
                         [alloc |-> TRUE, tris |-> << >>, verts |-> << >>],
                         Ascending(P.nodes[node].bm_faces))]

\* BKE_pbvh_bmesh_get_tris on a leaf
BKE_pbvh_bmesh_get_tris(node) ==
  /\ pc = "idle"
  /\ hist.queries < MaxQueries
  /\ node \in LeafNodes(pbvh)
  /\ pbvh' = BKE_pbvh_bmesh_check_tris(pbvh, node)
  /\ hist' = [hist EXCEPT !.queries = @ + 1, !.last = "tris", !.node = node]
  /\ UNCHANGED <<pc, args, eq_ctx, loc, curveVars, editorVars>>

\* what one pbvh_bmesh_face_remove call prints and what it hands to
\* BM_log_face_removed
FaceRemoval(P, f) ==
  [face |-> f,
   tag |-> P.fnode[f],
   printed |-> IF P.fnode[f] = DYNTOPO_NODE_NONE THEN <<"pbvh corruption">> ELSE << >>,
   logged |-> IF P.fnode[f] = DYNTOPO_NODE_NONE THEN << >> ELSE <<f>>]

\* BKE_pbvh_bmesh_face_kill
BKE_pbvh_bmesh_face_kill(f) ==
  /\ pc = "idle"
  /\ hist.kills < MaxKills
  /\ f \in DOMAIN pbvh.faces
  /\ pbvh' = BM_face_kill(pbvh_bmesh_face_remove(pbvh, f), f)
  /\ hist' = [hist EXCEPT !.kills = @ + 1, !.last = "kill",
                          !.removal = FaceRemoval(pbvh, f)]
  /\ UNCHANGED <<pc, args, eq_ctx, loc, curveVars, editorVars>>

\* pbvh_count_subtree_verts: the value it leaves in n->subtree_tottri
RECURSIVE pbvh_count_subtree_verts(_, _)
pbvh_count_subtree_verts(P, n) ==
  IF IsLeaf(P, n) THEN Cardinality(P.nodes[n].bm_faces)
  ELSE pbvh_count_subtree_verts(P, P.nodes[n].children_offset)
       + pbvh_count_subtree_verts(P, P.nodes[n].children_offset + 1)

\* "mark for deletion" unless the node is the one that is joined into
JoinDelete(P, node, parent) ==
  IF node # parent THEN FlagOn(P, node, {"PBVH_Delete"}) ELSE P

\* the leaf branch of pbvh_bmesh_join_subnodes: the unique vertices and the
\* faces of the leaf go to parent, their tags to DYNTOPO_NODE_NONE
JoinLeaf(P, n, parent) ==
  [P EXCEPT !.nodes[parent].bm_unique_verts = @ \cup n.bm_unique_verts,
            !.nodes[parent].bm_faces = @ \cup n.bm_faces,
            !.vnode = [v \in DOMAIN @ |->
                         IF v \in n.bm_unique_verts THEN DYNTOPO_NODE_NONE ELSE @[v]],
            !.fnode = [f \in DOMAIN @ |->
                         IF f \in n.bm_faces THEN DYNTOPO_NODE_NONE ELSE @[f]]]

\* pbvh_bmesh_join_subnodes
RECURSIVE pbvh_bmesh_join_subnodes(_, _, _)
pbvh_bmesh_join_subnodes(P, node, parent) ==
  IF ~IsLeaf(P, node)
  THEN LET ni == P.nodes[node].children_offset IN
       IF ni > 0 /\ ni < totnode(P) - 1
       THEN JoinDelete(pbvh_bmesh_join_subnodes(
                         pbvh_bmesh_join_subnodes(P, ni, parent), ni + 1, parent),
                       node, parent)
       ELSE P
  ELSE JoinLeaf(JoinDelete(P, node, parent), P.nodes[node], parent)

\* mutant: the root is joined like every other node
corect_tree_joins_root(P, node) ==
  pbvh_count_subtree_verts(P, node) < P.leaf_limit - (P.leaf_limit \div 2)

\* the test of BKE_pbvh_bmesh_corect_tree: subtree_tottri < size_lower, and
\* the node is not pbvh->nodes
corect_tree_joins(P, node) ==
  /\ pbvh_count_subtree_verts(P, node) < P.leaf_limit - (P.leaf_limit \div 2)
  /\ node # 0

\* the end of the joining branch of BKE_pbvh_bmesh_corect_tree: the node is a
\* leaf again, its faces are untagged and bm_other_verts is rebuilt from them
CorectLeaf(P, node) ==
  LET fs == P.nodes[node].bm_faces IN
  [P EXCEPT !.nodes[node].children_offset = 0,
            !.nodes[node].flag =
               @ \cup {"PBVH_Leaf", "PBVH_UpdateRedraw", "PBVH_UpdateBB",
                       "PBVH_UpdateDrawBuffers", "PBVH_RebuildDrawBuffers",
                       "PBVH_UpdateOriginalBB", "PBVH_UpdateMask",
                       "PBVH_UpdateVisibility", "PBVH_UpdateColor",
                       "PBVH_UpdateTopology", "PBVH_UpdateNormals", "PBVH_UpdateTris"},
            !.fnode = [f \in DOMAIN @ |-> IF f \in fs THEN DYNTOPO_NODE_NONE ELSE @[f]],
            !.nodes[node].bm_other_verts =
               UNION {FaceVerts(P, f) : f \in fs} \ P.nodes[node].bm_unique_verts]

\* BKE_pbvh_bmesh_corect_tree
RECURSIVE BKE_pbvh_bmesh_corect_tree(_, _)
BKE_pbvh_bmesh_corect_tree(P, node) ==
  IF IsLeaf(P, node) THEN P
  ELSE IF corect_tree_joins(P, node)
  THEN CorectLeaf(
         pbvh_bmesh_join_subnodes(
           pbvh_bmesh_join_subnodes(
             [P EXCEPT !.nodes[node].bm_unique_verts = {},
                       !.nodes[node].bm_other_verts = {},
                       !.nodes[node].bm_faces = {}],
             P.nodes[node].children_offset, node),
           P.nodes[node].children_offset + 1, node),
         node)
  ELSE BKE_pbvh_bmesh_corect_tree(
         BKE_pbvh_bmesh_corect_tree(P, P.nodes[node].children_offset),
         P.nodes[node].children_offset + 1)

IsDeleted(P, i) == "PBVH_Delete" \in P.nodes[i].flag

\* the first loop of pbvh_bmesh_join_nodes after the tree was corrected: an
\* inner node with one deleted child gets that child back as an empty leaf,
\* an inner node with two deleted children becomes a leaf
JoinUndelete(P, i) ==
  LET n == P.nodes[i]
      n1 == n.children_offset
      n2 == n.children_offset + 1
  IN  IF IsDeleted(P, i) \/ IsLeaf(P, i) THEN P
      ELSE IF IsDeleted(P, n1) # IsDeleted(P, n2)
      THEN [P EXCEPT !.nodes[IF IsDeleted(P, n1) THEN n1 ELSE n2] =
              [@ EXCEPT !.flag = {"PBVH_Leaf", "PBVH_UpdateTris"},
                        !.bm_unique_verts = {}, !.bm_other_verts = {},
                        !.bm_faces = {}, !.tribuf = NoTribuf]]
      ELSE IF IsDeleted(P, n1) /\ IsDeleted(P, n2)
      THEN [P EXCEPT !.nodes[i] =
              [@ EXCEPT !.children_offset = 0,
                        !.flag = @ \cup {"PBVH_Leaf", "PBVH_UpdateTris"},
                        !.tribuf = NoTribuf]]
      ELSE P

\* mutant: the child offsets are not remapped
JoinMap_identity(P, i) == i

\* "build idx map for child offsets": the number of nodes before i that stay,
\* and 0 (MEM_callocN) for a deleted node
JoinMap(P, i) ==
  IF IsDeleted(P, i) THEN 0
  ELSE Cardinality({k \in 0 .. i - 1 : ~IsDeleted(P, k)})

\* "compact node array": the nodes that are not deleted move down, their
\* child offsets go through the map, the deleted nodes (freed with their
\* triangle buffers and sets) and the zeroed tail are dropped at totnode
JoinCompact(P) ==
  LET kept == Ascending({i \in DOMAIN P.nodes :
                           /\ ~IsDeleted(P, i)
                           /\ ~(P.nodes[i].children_offset >= totnode(P) - 1)})
  IN  [P EXCEPT !.nodes =
         [j \in 0 .. Len(kept) - 1 |->
            [P.nodes[kept[j + 1]] EXCEPT
               !.children_offset = JoinMap(P, P.nodes[kept[j + 1]].children_offset)]]]

\* "set vert/face node indices again", for one node
JoinRetag(P, i) ==
  IF ~IsLeaf(P, i) THEN P
  ELSE [P EXCEPT !.vnode = [v \in DOMAIN @ |->
                              IF v \in P.nodes[i].bm_unique_verts THEN i ELSE @[v]],
                 !.fnode = [f \in DOMAIN @ |->
                              IF f \in P.nodes[i].bm_faces THEN i ELSE @[f]]]

\* the last loop of pbvh_bmesh_join_nodes, for one node: the vertices of
\* bm_other_verts that no node owns become unique vertices of the node
JoinAdopt(P, i) ==
  LET scratch == {v \in P.nodes[i].bm_other_verts : P.vnode[v] = DYNTOPO_NODE_NONE} IN
  IF ~IsLeaf(P, i) THEN P
  ELSE [P EXCEPT !.nodes[i].bm_other_verts = @ \ scratch,
                 !.nodes[i].bm_unique_verts = @ \cup scratch,
                 !.vnode = [v \in DOMAIN @ |-> IF v \in scratch THEN i ELSE @[v]]]

\* a loop over the node array
ForNodes(Op(_, _), P) == Fold(Op, P, Ascending(DOMAIN P.nodes))

\* pbvh_bmesh_join_nodes from "compact nodes" to its end
JoinNodesCompact(P) ==
  LET Adopt(Q) == ForNodes(JoinAdopt, Q)
      Retag(Q) == Adopt(ForNodes(JoinRetag, Q))
      Compact(Q) == Retag(JoinCompact(Q))
  IN  Compact(ForNodes(JoinUndelete, P))

\* BKE_pbvh_bmesh_after_stroke: pbvh_bmesh_join_nodes up to the corrected tree
AfterStrokeJoin ==
  /\ pc = "idle"
  /\ hist.strokes < MaxStrokes
  /\ LET Joined(Q) ==
           /\ pbvh' = Q
           /\ hist' = [hist EXCEPT !.last = "stroke",
                                   !.merged = {n \in DOMAIN pbvh.nodes :
                                                 ~IsLeaf(pbvh, n) /\ IsLeaf(Q, n)}]
     IN  Joined(IF totnode(pbvh) < 2 THEN pbvh ELSE BKE_pbvh_bmesh_corect_tree(pbvh, 0))
  /\ pc' = "compact"
  /\ UNCHANGED <<args, eq_ctx, loc, curveVars, editorVars>>

\* the rest of pbvh_bmesh_join_nodes
AfterStrokeCompact ==
  /\ pc = "compact"
  /\ pbvh' = IF totnode(pbvh) < 2 THEN pbvh ELSE JoinNodesCompact(pbvh)
  /\ pc' = "ensure"
  /\ UNCHANGED <<args, eq_ctx, loc, hist, curveVars, editorVars>>

\* the loop that ends BKE_pbvh_bmesh_after_stroke: nodes that exist when it
\* begins and are leaves when their turn comes are split if they are over the
\* leaf limit
AfterStrokeEnsure ==
  /\ pc = "ensure"
  /\ pbvh' = Fold(LAMBDA P, i : IF IsLeaf(P, i) THEN pbvh_bmesh_node_limit_ensure(P, i)
                                ELSE P,
                  pbvh, Ascending(DOMAIN pbvh.nodes))
  /\ hist' = [hist EXCEPT !.strokes = @ + 1, !.last = "stroke_return"]
  /\ pc' = "idle"
  /\ UNCHANGED <<args, eq_ctx, loc, curveVars, editorVars>>

\* the faces BKE_pbvh_bmesh_face_kill is called with
KillFaces == {1, 2, 3}

\* the meshes of the runs that end a stroke
StrokeMeshes == {MeshBand, MeshStrip, MeshHidden, MeshCorner}

\* BKE_pbvh_build_bmesh of one of these meshes
InitStroke ==
  /\ NoCurve
  /\ NoEditors
  /\ \E bm \in StrokeMeshes : pbvh = BuildBmesh(bm, StrokeLeafLimit)
  /\ pc = "idle"
  /\ args = NoArgs
  /\ eq_ctx = EdgeQueueContext
  /\ loc = Locals
  /\ hist = NoHistory

\* a stroke: leaves are marked, the topology is updated, triangle buffers are
\* asked for, faces are killed, and BKE_pbvh_bmesh_after_stroke ends it
NextStroke ==
  \/ \E n \in DOMAIN pbvh.nodes :
       FlaggedLeaves(pbvh) = {} /\ BKE_pbvh_node_mark_topology_update(n)
  \/ \E mode \in StrokeModes : UpdateTopologyBegin(mode, 96, 400, TRUE)
  \/ CollapseCreate
  \/ CollapseStep
  \/ SubdivideCreate
  \/ SubdivideStep
  \/ Cleanup
  \/ UpdateTopologyReturn
  \/ \E n \in DOMAIN pbvh.nodes : BKE_pbvh_bmesh_get_tris(n)
  \/ \E f \in KillFaces : BKE_pbvh_bmesh_face_kill(f)
  \/ AfterStrokeJoin
  \/ AfterStrokeCompact
  \/ AfterStrokeEnsure

SpecStroke == InitStroke /\ [][NextStroke]_vars

------------------------------------------------------------------------------
(* PBVH: raycasts against the original coordinates *)

\* most pbvh_bmesh_node_raycast calls of one run
MaxRays == 3

\* the stroke ids the raycasts are made with
StrokeIds == {1, 2}

\* the meshes of the runs with raycasts
RayMeshes == {MeshStrip, MeshHidden, MeshCorner}

\* mutant: the original coordinate is written at every check
BKE_pbvh_bmesh_check_origdata_always(P, v, stroke_id) ==
  [P EXCEPT !.origco[v] = P.co[v], !.stroke_id[v] = stroke_id]

\* BKE_pbvh_bmesh_check_origdata (BKE_pbvh_bmesh_update_origvert with r_co set
\* copies v->co to mv->origco)
BKE_pbvh_bmesh_check_origdata(P, v, stroke_id) ==
  IF P.stroke_id[v] # stroke_id
  THEN [P EXCEPT !.origco[v] = P.co[v], !.stroke_id[v] = stroke_id]
  ELSE P

\* the body of the triangle loop of pbvh_bmesh_node_raycast up to the
\* intersection test: a hidden face is passed over, and with use_original
\* the three vertices are checked first
RaycastTri(P, tb, tri, use_original, stroke_id) ==
  IF tri.f \in P.fhide \/ ~use_original THEN P
  ELSE BKE_pbvh_bmesh_check_origdata(
         BKE_pbvh_bmesh_check_origdata(
           BKE_pbvh_bmesh_check_origdata(P, tb.verts[tri.v[1] + 1], stroke_id),
           tb.verts[tri.v[2] + 1], stroke_id),
         tb.verts[tri.v[3] + 1], stroke_id)

\* the vertices of the triangles of node that a raycast tests
RaycastVerts(P, node) ==
  LET tb == P.nodes[node].tribuf IN
  UNION {{tb.verts[tb.tris[i].v[c] + 1] : c \in 1 .. 3} :
           i \in {k \in 1 .. Len(tb.tris) : tb.tris[k].f \notin P.fhide}}

\* pbvh_bmesh_node_raycast, as far as it writes: the triangle buffer and the
\* original coordinates
pbvh_bmesh_node_raycast(P, node, use_original, stroke_id) ==
  LET Tris(Q) ==
        Fold(LAMBDA R, tri : RaycastTri(R, Q.nodes[node].tribuf, tri, use_original,
                                        stroke_id),
             Q, Q.nodes[node].tribuf.tris)
  IN  Tris(BKE_pbvh_bmesh_check_tris(P, node))

\* the coordinates ray_face_intersection_tri is called with, by vertex
RaycastTested(P, node, use_original) ==
  [v \in RaycastVerts(P, node) |-> IF use_original THEN P.origco[v] ELSE P.co[v]]

\* a raycast of a leaf; the history keeps what was tested, for every vertex
\* the stroke id and the coordinate of its last test against the original
\* coordinates, how often its original coordinate was written under an id,
\* and the coordinate of its first test under an id
Raycast(node, use_original, stroke_id) ==
  /\ pc = "idle"
  /\ hist.rays < MaxRays
  /\ node \in LeafNodes(pbvh)
  /\ LET Done(Q) ==
           LET tested == RaycastTested(Q, node, use_original)
               vs == DOMAIN tested
               written == {v \in vs : use_original /\ pbvh.stroke_id[v] # stroke_id}
           IN  /\ pbvh' = Q
               /\ hist' = [hist EXCEPT
                    !.rays = @ + 1, !.last = "ray", !.node = node,
                    !.ray = [stroke_id |-> stroke_id, use_original |-> use_original],
                    !.tested = tested,
                    !.again = {v \in vs \cap DOMAIN hist.seen :
                                 use_original /\ hist.seen[v].stroke_id = stroke_id},
                    !.seen = IF use_original
                             THEN [v \in DOMAIN @ \cup vs |->
                                     IF v \in vs
                                     THEN [stroke_id |-> stroke_id, co |-> tested[v]]
                                     ELSE @[v]]
                             ELSE @,
                    !.writes = [k \in DOMAIN @ \cup {<<v, stroke_id>> : v \in written} |->
                                  (IF k \in DOMAIN @ THEN @[k] ELSE 0)
                                  + (IF k[2] = stroke_id /\ k[1] \in written THEN 1 ELSE 0)],
                    !.first = IF use_original
                              THEN [k \in DOMAIN @ \cup {<<v, stroke_id>> : v \in vs} |->
                                      IF k \in DOMAIN @ THEN @[k] ELSE tested[k[1]]]
                              ELSE @]
     IN  Done(pbvh_bmesh_node_raycast(pbvh, node, use_original, stroke_id))
  /\ UNCHANGED <<pc, args, eq_ctx, loc, curveVars, editorVars>>

\* BKE_pbvh_build_bmesh of one of these meshes; it does not write
\* mv->stroke_id, so the vertices come with the stamp they had before
InitRaycast ==
  /\ NoCurve
  /\ NoEditors
  /\ \E bm \in RayMeshes, stamp \in {0} \cup StrokeIds :
       pbvh = [BKE_pbvh_build_bmesh(bm) EXCEPT
                 !.stroke_id = [v \in DOMAIN @ |-> stamp]]
  /\ pc = "idle"
  /\ args = NoArgs
  /\ eq_ctx = EdgeQueueContext
  /\ loc = Locals
  /\ hist = NoHistory

\* raycasts between the collapse passes that move vertices
NextRaycast ==
  \/ \E n \in DOMAIN pbvh.nodes :
       FlaggedLeaves(pbvh) = {} /\ BKE_pbvh_node_mark_topology_update(n)
  \/ UpdateTopologyBegin({"PBVH_Collapse"}, 96, 400, TRUE)
  \/ CollapseCreate
  \/ CollapseStep
  \/ UpdateTopologyReturn
  \/ \E n \in DOMAIN pbvh.nodes, use_original \in BOOLEAN, stroke_id \in StrokeIds :
       Raycast(n, use_original, stroke_id)

SpecRaycast == InitRaycast /\ [][NextRaycast]_vars

------------------------------------------------------------------------------
(* PBVH: the claims *)

LiveVerts == DOMAIN pbvh.co

LiveFaces == DOMAIN pbvh.faces

\* a call of BKE_pbvh_bmesh_update_topology has just returned
Returned == pc = "idle" /\ hist.last = "return"

\* C1, as claimed: after the build and after every update_topology call,
\* every live vertex and every live face carries a home-node tag that
\* designates a leaf, and that leaf's unique-vertex set (face set) contains
\* the element
C1_HomeTagsClaimed ==
  pc = "idle" =>
    /\ \A v \in LiveVerts :
         /\ pbvh.vnode[v] \in LeafNodes(pbvh)
         /\ v \in pbvh.nodes[pbvh.vnode[v]].bm_unique_verts
    /\ \A f \in LiveFaces :
         /\ pbvh.fnode[f] \in LeafNodes(pbvh)
         /\ f \in pbvh.nodes[pbvh.fnode[f]].bm_faces

\* C2, as claimed: when a call with Subdivide and/or Collapse and with
\* updatePBVH returns, every leaf owns at most leaf_limit faces (the call
\* began with every leaf within the limit, so a leaf over the limit exceeded
\* it because of the call)
C2_LeafLimitClaimed ==
  (/\ Returned
   /\ hist.updatePBVH
   /\ hist.mode \cap {"PBVH_Collapse", "PBVH_Subdivide"} # {}
   /\ hist.within_limit)
  => WithinLeafLimit(pbvh)

\* C3, as claimed: after every mutation of the partition each tracked vertex
\* (one whose tag is not DYNTOPO_NODE_NONE) is in the unique-vertex set of
\* exactly one leaf, is never in both the unique and the other set of one
\* leaf, and is in the unique or other set of every leaf that owns a face
\* using it
C3_VertexSetsClaimed ==
  \A v \in LiveVerts :
    pbvh.vnode[v] # DYNTOPO_NODE_NONE =>
      /\ Cardinality({n \in LeafNodes(pbvh) : v \in pbvh.nodes[n].bm_unique_verts}) = 1
      /\ \A n \in LeafNodes(pbvh) :
           /\ ~(/\ v \in pbvh.nodes[n].bm_unique_verts
                /\ v \in pbvh.nodes[n].bm_other_verts)
           /\ (\E f \in pbvh.nodes[n].bm_faces \cap LiveFaces : v \in FaceVerts(pbvh, f))
                => v \in pbvh.nodes[n].bm_unique_verts \cup pbvh.nodes[n].bm_other_verts

\* C9, as claimed: the loop of a subdivide or collapse pass takes at most
\* max_steps entries off the queue
C9_MaxStepsClaimed == hist.popped <= hist.max_steps

RatioWithin(r, lo, hi) ==
  /\ r[2] > 0
  /\ r[1] * lo[2] >= lo[1] * r[2]
  /\ r[1] * hi[2] <= hi[1] * r[2]

\* C19: whatever edge-length statistics the queue of a pass has gathered (no
\* edge, only zero-length edges, very short or very long edges), the ratio that
\* scales the step budget of the collapse pass lies within [0.25, 5.0] and the
\* ratio of the subdivide pass within [0.05, 1.0]
C19_RatioRange ==
  /\ pc = "collapse" => RatioWithin(loc.ratio, <<1, 4>>, <<5, 1>>)
  /\ pc = "subdivide" => RatioWithin(loc.ratio, <<1, 20>>, <<1, 1>>)

\* C19 witness: the subdivide pass of a call that also collapsed; the
\* statistics hold a zero-length edge next to very long ones, and the ratio
\* came out at the limit 0.05
C19_Witness ==
  /\ pc = "subdivide"
  /\ "PBVH_Collapse" \in args.mode
  /\ eq_ctx.totedge > 0
  /\ eq_ctx.min_elen = 0
  /\ eq_ctx.avg_elen > 0
  /\ loc.ratio = <<1, 20>>

\* the edge that the next turn of the collapse loop takes from the heap, after
\* the look-up of its ends in deleted_verts
PoppedEdge ==
  {bm_vert_hash_lookup_chain(loc.deleted_verts, eq_ctx.heap[HeapMin(eq_ctx.heap)].pair[1]),
   bm_vert_hash_lookup_chain(loc.deleted_verts, eq_ctx.heap[HeapMin(eq_ctx.heap)].pair[2])}

\* a seam edge with an end that fewer than 2 seam edges meet
LooseSeamEdge(P, e) ==
  /\ e \in DOMAIN P.edges
  /\ e \in P.seam
  /\ \E v \in e : Cardinality({e2 \in P.seam : v \in e2}) < 2

\* C13: a seam edge with an end vertex that has fewer than 2 seam edges is
\* never collapsed: the turn of the collapse loop that takes it from the heap
\* leaves the mesh, the home tags and every node (its face set and its two
\* vertex sets) as they were
C13_LooseSeamKept ==
  [][(/\ pc = "collapse"
      /\ eq_ctx.heap # << >>
      /\ loc.step <= loc.max_steps
      /\ LooseSeamEdge(pbvh, PoppedEdge))
     => pbvh' = pbvh]_vars

\* C13 witness: pbvh_bmesh_collapse_edge has been called in this pass and no
\* vertex has been deleted: the call was held back by a short seam edge, which
\* is still there with an end that has a single seam edge
C13_Witness ==
  /\ pc = "collapse"
  /\ loc.any
  /\ loc.deleted_verts = << >>
  /\ \E e \in pbvh.seam :
       /\ LooseSeamEdge(pbvh, e)
       /\ len_squared(pbvh, e) < Sq(pbvh.bm_min_edge_len)
       /\ \E v \in e : Cardinality({e2 \in pbvh.seam : v \in e2}) >= 2

\* two loop cycles of the same face winding
SameWinding(a, b) == b \in {a, <<a[2], a[3], a[1]>>, <<a[3], a[1], a[2]>>}

\* the loop cycle v_tri with vertex old replaced by vertex new
WithVert(v_tri, old, new) == [k \in 1 .. 3 |-> IF v_tri[k] = old THEN new ELSE v_tri[k]]

\* the edge that the next turn of the subdivide loop takes from the heap
PoppedLongEdge ==
  {eq_ctx.heap[HeapMin(eq_ctx.heap)].pair[1], eq_ctx.heap[HeapMin(eq_ctx.heap)].pair[2]}

\* what one split of edge e between the meshes P and Q has to look like
SplitOnce(P, Q, e) ==
  LET v_news == DOMAIN Q.co \ DOMAIN P.co
      adjacent == {f \in DOMAIN P.faces : e \subseteq FaceVerts(P, f)}
      gone == DOMAIN P.faces \ DOMAIN Q.faces
      made == DOMAIN Q.faces \ DOMAIN P.faces
      Halves(f, v_new) ==
        {WithVert(P.faces[f], v, v_new) : v \in e}
  IN  /\ DOMAIN P.co \subseteq DOMAIN Q.co
      /\ Cardinality(v_news) = 1
      /\ e \notin DOMAIN Q.edges
      /\ gone = adjacent
      /\ Cardinality(made) = 2 * Cardinality(adjacent)
      /\ \A f \in DOMAIN P.faces \cap DOMAIN Q.faces : Q.faces[f] = P.faces[f]
      /\ \A v_new \in v_news :
           /\ \A f \in adjacent : \A half \in Halves(f, v_new) :
                \E g \in made : SameWinding(half, Q.faces[g])
           /\ \A g \in made : \E f \in adjacent : \E half \in Halves(f, v_new) :
                SameWinding(half, Q.faces[g])

\* C12: one edge split adds exactly one vertex, removes the split edge and
\* replaces each face of the edge by exactly two new faces with the winding of
\* the face they replace (one end of the edge exchanged for the new vertex);
\* no other face is made or removed
C12_SplitOnce ==
  [][(/\ pc = "subdivide"
      /\ eq_ctx.heap # << >>
      /\ loc.step <= loc.max_steps
      /\ PoppedLongEdge \in DOMAIN pbvh.edges
      /\ \A v \in PoppedLongEdge : pbvh.vnode[v] # DYNTOPO_NODE_NONE)
     => SplitOnce(pbvh, pbvh', PoppedLongEdge)]_vars

\* C12 witness: the subdivide pass has split an edge between two faces: the
\* newest vertex is a corner of four faces
C12_Witness ==
  /\ pc = "subdivide"
  /\ loc.any
  /\ (pbvh.nextv - 1) \in DOMAIN pbvh.co
  /\ Cardinality({f \in DOMAIN pbvh.faces : (pbvh.nextv - 1) \in FaceVerts(pbvh, f)}) = 4

\* the vertices a leaf lists as its own or as borrowed
LeafVerts(P) ==
  UNION {P.nodes[n].bm_unique_verts \cup P.nodes[n].bm_other_verts : n \in LeafNodes(P)}

\* C11, as claimed: when a call with mode Collapse returns, every edge that
\* was shorter than bm_min_edge_len, in range in a flagged leaf and not held
\* back by the seam check is gone with all the faces that were on it, no edge
\* is without a face, and no vertex without an edge is in the mesh or in a
\* vertex set of a leaf
C11_CollapseCleanClaimed ==
  (Returned /\ hist.mode = {"PBVH_Collapse"} /\ hist.short # {}) =>
    /\ hist.short \cap DOMAIN pbvh.edges = {}
    /\ hist.short_faces \cap DOMAIN pbvh.faces = {}
    /\ \A e \in DOMAIN pbvh.edges : ~BM_edge_is_wire(pbvh, e)
    /\ \A v \in DOMAIN pbvh.co : BM_EDGES_OF_VERT(pbvh, v) # {}
    /\ \A v \in LeafVerts(pbvh) : v \in DOMAIN pbvh.co /\ BM_EDGES_OF_VERT(pbvh, v) # {}

\* the triangle buffer of leaf n is there and the leaf is not marked for a
\* triangle rebuild
TribufFresh(P, n) ==
  P.nodes[n].tribuf.alloc /\ "PBVH_UpdateTris" \notin P.nodes[n].flag

\* the faces the triangles of a buffer stand for
TribufFaces(tb) == {tb.tris[i].f : i \in 1 .. Len(tb.tris)}

C15_VisibleTrisClaimed ==
  (pc = "idle" /\ hist.last = "tris") =>
    LET tb == pbvh.nodes[hist.node].tribuf
        visible == {f \in pbvh.nodes[hist.node].bm_faces : f \notin pbvh.fhide}
    IN  /\ TribufFaces(tb) = visible
        /\ Len(tb.tris) = Cardinality(visible)
        /\ \A i, j \in 1 .. Len(tb.verts) : tb.verts[i] = tb.verts[j] => i = j
        /\ Range(tb.verts) = UNION {FaceVerts(pbvh, f) : f \in visible}
        /\ \A i \in 1 .. Len(tb.tris) : \A c \in 1 .. 3 :
             /\ tb.tris[i].v[c] \in 0 .. Len(tb.verts) - 1
             /\ tb.verts[tb.tris[i].v[c] + 1] = pbvh.faces[tb.tris[i].f][c]

\* the leaves of the subtree of node n
RECURSIVE SubtreeLeaves(_, _)
SubtreeLeaves(P, n) ==
  IF IsLeaf(P, n) THEN {n}
  ELSE SubtreeLeaves(P, P.nodes[n].children_offset)
       \cup SubtreeLeaves(P, P.nodes[n].children_offset + 1)

SubtreeFaces(P, n) == UNION {P.nodes[l].bm_faces : l \in SubtreeLeaves(P, n)}

SubtreeUniqueVerts(P, n) == UNION {P.nodes[l].bm_unique_verts : l \in SubtreeLeaves(P, n)}

\* what the merge pass may do to the tree P, giving Q: a node that is turned
\* from an inner node into a leaf is not the root, its subtree had fewer
\* faces than half the leaf limit, and as a leaf it owns exactly the faces and
\* the unique vertices of the leaves that were in its subtree
MergedByRule(P, Q) ==
  \A n \in DOMAIN P.nodes :
    (~IsLeaf(P, n) /\ IsLeaf(Q, n)) =>
      /\ n # 0
      /\ 2 * Cardinality(SubtreeFaces(P, n)) < P.leaf_limit
      /\ Q.nodes[n].bm_faces = SubtreeFaces(P, n)
      /\ Q.nodes[n].bm_unique_verts = SubtreeUniqueVerts(P, n)

\* C17: the merge pass of BKE_pbvh_bmesh_after_stroke turns an inner node into
\* a leaf only if the node is not the root and its subtree has fewer faces
\* than half the leaf limit, the new leaf owns exactly the faces and unique
\* vertices of the leaves of that subtree, and no step merges the root away
\* (an inner root stays an inner node) or marks it deleted
C17_MergeRule ==
  [][/\ (pc = "idle" /\ pc' = "compact") => MergedByRule(pbvh, pbvh')
     /\ ~IsDeleted(pbvh', 0)
     /\ ~IsLeaf(pbvh, 0) => ~IsLeaf(pbvh', 0)]_vars

\* C17 witness: the merge pass has just turned an inner node into a leaf that
\* owns a face, and the root is still an inner node
C17_Witness ==
  /\ pc = "compact"
  /\ ~IsLeaf(pbvh, 0)
  /\ \E n \in hist.merged :
       /\ IsLeaf(pbvh, n)
       /\ pbvh.nodes[n].bm_faces # {}
       /\ pbvh.nodes[n].bm_unique_verts # {}
       /\ \E d \in DOMAIN pbvh.nodes : IsDeleted(pbvh, d)

\* node i has two children next to each other in the node array, neither
\* marked deleted
ChildrenLive(P, i) ==
  /\ P.nodes[i].children_offset > 0
  /\ {P.nodes[i].children_offset, P.nodes[i].children_offset + 1} \subseteq DOMAIN P.nodes
  /\ ~IsDeleted(P, P.nodes[i].children_offset)
  /\ ~IsDeleted(P, P.nodes[i].children_offset + 1)

RayReturned == pc = "idle" /\ hist.last = "ray" /\ hist.ray.use_original

\* C16, as claimed: with use_original, the original coordinate of a vertex is
\* written at most once under one stroke id, and once a raycast with a stroke
\* id has tested a vertex, every later raycast with that stroke id tests it
\* at the same coordinate
C16_OncePerStrokeIdClaimed ==
  /\ \A k \in DOMAIN hist.writes : hist.writes[k] <= 1
  /\ RayReturned =>
       \A v \in DOMAIN hist.tested :
         hist.tested[v] = hist.first[<<v, hist.ray.stroke_id>>]

\* a step is a raycast against the original coordinates
RayStep == hist'.rays = hist.rays + 1 /\ hist'.ray.use_original

\* C16, amended: the original coordinate of a vertex changes only in a
\* raycast with use_original that tests the vertex while the vertex is
\* stamped with another stroke id than the raycast's; and a raycast with
\* use_original tests a vertex, whose last such test was made with the same
\* stroke id, at the coordinate of that test, wherever the vertex is now
C16_StableWhileStamped ==
  [][/\ \A v \in DOMAIN pbvh.origco \cap DOMAIN pbvh'.origco :
          pbvh'.origco[v] # pbvh.origco[v] =>
            /\ RayStep
            /\ v \in DOMAIN hist'.tested
            /\ pbvh.stroke_id[v] # hist'.ray.stroke_id
     /\ RayStep => \A v \in hist'.again : hist'.tested[v] = hist.seen[v].co]_vars

\* C16 witness: a raycast has tested a vertex at the coordinate of the test
\* before, made with the same stroke id, although the vertex was moved since
C16_Witness ==
  /\ RayReturned
  /\ \E v \in hist.again :
       /\ pbvh.co[v] # hist.tested[v]
       /\ hist.tested[v] = hist.seen[v].co
       /\ hist.writes[<<v, hist.ray.stroke_id>>] = 1

------------------------------------------------------------------------------
(* Offset modifier (MOD_gpenciloffset.c): bounds and inputs *)

\* most deform calls the model makes on one stroke
MaxDeforms == 2

\* numbers are exact fractions: weights in halves (1.0 is WeightOne), coordinates in units of
\* 1 / 2^MaxDeforms, pressures in units of 1 / 6^MaxDeforms
WeightOne == 2

RECURSIVE Pow(_, _)
Pow(b, n) == IF n = 0 THEN 1 ELSE b * Pow(b, n - 1)

CoOne == Pow(2, MaxDeforms)
PressureOne == Pow(6, MaxDeforms)

\* mmd->scale and mmd->loc values the model draws from (mmd->rot is zero)
OffsetScales == {<<0, 0, 0>>, <<2, 2, 2>>, <<2, 0, 4>>}
OffsetLocs == {<<0, 0, 0>>, <<CoOne, 0, -CoOne>>}

\* weights of the three points in the group, in halves; -1: the point has no
\* weight in the group
WeightRows == {<<0, 1, 2>>, <<2, 2, 2>>, <<-1, 1, 0>>}

\* the three points of the stroke and of its edit curve
StrokePoints ==
  << [co |-> <<CoOne, 2 * CoOne, -CoOne>>, pressure |-> PressureOne],
     [co |-> <<2 * CoOne, CoOne, 3 * CoOne>>, pressure |-> 2 * PressureOne],
     [co |-> <<-CoOne, 3 * CoOne, 2 * CoOne>>, pressure |-> PressureOne] >>

Shift(co, d) == <<co[1] + d, co[2] + d, co[3] + d>>

CurvePoints ==
  [i \in 1..3 |->
     [vec |-> <<Shift(StrokePoints[i].co, -CoOne), StrokePoints[i].co,
                Shift(StrokePoints[i].co, CoOne)>>,
      pressure |-> StrokePoints[i].pressure]]

\* gps->editcurve == NULL
NoEditcurve == [null |-> TRUE, curve_points |-> << >>, dvert |-> << >>]

------------------------------------------------------------------------------
(* Offset modifier: the deform callbacks *)

\* get_modifier_point_weight: 1 without a group; the weight of the point in
\* the group, negative when the point is not in it; with the invert flag the
\* points outside the group get 1 and the points in it are left out
get_modifier_point_weight(has_dvert, dw, inverse, def_nr) ==
  CASE has_dvert /\ def_nr # -1 ->
         IF dw >= 0 THEN (IF inverse THEN -1 ELSE dw)
         ELSE (IF inverse THEN WeightOne ELSE -1)
    [] ~has_dvert /\ def_nr # -1 -> IF inverse THEN WeightOne ELSE -1
    [] OTHER -> WeightOne

\* mutant: the configured scale is the factor at weight 1
ScaleFactor_blend(s, weight) == WeightOne + (s - 1) * weight

\* mul_v3_v3fl(scale, mmd->scale, weight); add_v3_fl(scale, 1.0): the factor of
\* one axis, in halves
ScaleFactor(s, weight) == s * weight + WeightOne

\* the factors of the three axes, in halves
ScaleFactors(mmd, weight) ==
  [a \in 1..3 |-> ScaleFactor(mmd.scale[a], weight)]

\* loc_eul_size_to_mat4 with a zero rotation, then mul_m4_v3: each axis is
\* scaled by its factor and moved by weight * mmd->loc
OffsetCo(mmd, weight, co) ==
  [a \in 1..3 |->
     (co[a] * ScaleFactors(mmd, weight)[a] + mmd.loc[a] * weight) \div WeightOne]

\* pt->pressure *= (scale[0] + scale[1] + scale[2]) / 3
OffsetPressure(mmd, weight, pressure) ==
  LET f == ScaleFactors(mmd, weight)
  IN (pressure * (f[1] + f[2] + f[3])) \div (3 * WeightOne)

PointWeight(M, dvert, i) ==
  get_modifier_point_weight(dvert # << >>, IF dvert # << >> THEN dvert[i] ELSE -1,
                            M.mmd.invert_vgroup, M.def_nr)

\* the loop of deformPolyline over gps->points
DeformPoints(M) ==
  [i \in DOMAIN M.gps.points |->
     LET pt == M.gps.points[i]
         weight == PointWeight(M, M.gps.dvert, i)
     IN IF weight < 0 THEN pt
        ELSE [co |-> OffsetCo(M.mmd, weight, pt.co),
              pressure |-> OffsetPressure(M.mmd, weight, pt.pressure)]]

\* the loop of deformBezier over gpc->curve_points
DeformCurvePoints(M) ==
  LET gpc == M.gps.editcurve
  IN [i \in DOMAIN gpc.curve_points |->
        LET pt == gpc.curve_points[i]
            weight == PointWeight(M, gpc.dvert, i)
        IN IF weight < 0 THEN pt
           ELSE [vec |-> [j \in 1..3 |-> OffsetCo(M.mmd, weight, pt.vec[j])],
                 pressure |-> OffsetPressure(M.mmd, weight, pt.pressure)]]

Called(M, name) ==
  [M EXCEPT !.calls = @ + 1, !.last = name, !.before = M.gps]

\* deformPolyline
deformPolyline(name) ==
  /\ gpmod.status = "ok"
  /\ gpmod.calls < MaxDeforms
  /\ gpmod' = IF ~gpmod.affected THEN Called(gpmod, name)
              ELSE [Called(gpmod, name) EXCEPT !.gps.points = DeformPoints(gpmod)]
  /\ UNCHANGED <<curveVars, pbvhVars, sheet, prof>>

\* bakeModifier: deformPolyline on every stroke of every frame of every layer
bakeModifier == deformPolyline("bake")

\* deformBezier: gpc = gps->editcurve is read without a test; with no edit curve
\* the loop condition reads through a null pointer, and the call either ends
\* the process or goes on to set the flag
deformBezier ==
  /\ gpmod.status = "ok"
  /\ gpmod.calls < MaxDeforms
  /\ LET M == Called(gpmod, "bezier")
     IN IF ~gpmod.affected THEN gpmod' = M
        ELSE IF gpmod.gps.editcurve.null
          THEN \/ gpmod' = [M EXCEPT !.status = "crashed"]
               \/ gpmod' = [M EXCEPT !.gps.flag =
                                       @ \cup {"GP_STROKE_NEEDS_CURVE_UPDATE"}]
          ELSE gpmod' = [M EXCEPT
                 !.gps.editcurve.curve_points = DeformCurvePoints(gpmod),
                 !.gps.flag = @ \cup {"GP_STROKE_NEEDS_CURVE_UPDATE"}]
  /\ UNCHANGED <<curveVars, pbvhVars, sheet, prof>>

InitOffset ==
  /\ NoCurve
  /\ NoPbvh
  /\ sheet = << >>
  /\ prof = << >>
  /\ \E scale \in OffsetScales, mloc \in OffsetLocs, inverse \in BOOLEAN,
        def_nr \in {-1, 0}, affected \in BOOLEAN, row \in WeightRows,
        has_dvert \in BOOLEAN, has_curve \in BOOLEAN :
       LET dvert == IF has_dvert THEN row ELSE << >>
           stroke == [points |-> StrokePoints,
                      dvert |-> dvert,
                      editcurve |-> IF has_curve
                                      THEN [null |-> FALSE,
                                            curve_points |-> CurvePoints,
                                            dvert |-> dvert]
                                      ELSE NoEditcurve,
                      flag |-> {}]
       IN gpmod = [mmd |-> [loc |-> mloc, scale |-> scale,
                            invert_vgroup |-> inverse],
                   def_nr |-> def_nr,
                   affected |-> affected,
                   gps |-> stroke,
                   calls |-> 0,
                   last |-> "none",
                   before |-> stroke,
                   status |-> "ok"]

NextOffset ==
  \/ deformPolyline("polyline")
  \/ bakeModifier
  \/ deformBezier

SpecOffset == InitOffset /\ [][NextOffset]_vars

------------------------------------------------------------------------------
(* Offset modifier: properties *)

\* a deformPolyline call on an included stroke whose three points have the
\* weights 0.0, 0.5 and 1.0, made with the scale (2, 2, 2), no translation and
\* no rotation, has returned
WeightedScaleCase ==
  /\ gpmod.last = "polyline"
  /\ gpmod.status = "ok"
  /\ gpmod.affected
  /\ gpmod.def_nr # -1
  /\ ~gpmod.mmd.invert_vgroup
  /\ gpmod.before.dvert = <<0, 1, 2>>
  /\ gpmod.mmd.scale = <<2, 2, 2>>
  /\ gpmod.mmd.loc = <<0, 0, 0>>

\* point i of the stroke was scaled by num / den on each axis, and so was its
\* thickness
ScaledBy(i, num, den) ==
  /\ \A a \in 1..3 :
       den * gpmod.gps.points[i].co[a] = num * gpmod.before.points[i].co[a]
  /\ den * gpmod.gps.points[i].pressure = num * gpmod.before.points[i].pressure

\* C23 as claimed: with the weights 0.0, 0.5, 1.0 and the configured scale
\* (2, 2, 2), deformPolyline leaves the first point unchanged, scales the
\* second by 1.5 and the third by 2.0 on each axis, and multiplies each
\* thickness by the mean of the three factors
C23_WeightedScaleClaimed ==
  WeightedScaleCase =>
    /\ ScaledBy(1, 1, 1)
    /\ ScaledBy(2, 3, 2)
    /\ ScaledBy(3, 2, 1)

\* C23 amended: the factor of an axis is 1 + weight * configured scale, so the
\* first point is unchanged, the second is scaled by 2.0 and the third by 3.0
\* on each axis, and each thickness is multiplied by the mean of the three
\* factors (2.0 and 3.0)
C23_WeightedScale ==
  WeightedScaleCase =>
    /\ ScaledBy(1, 1, 1)
    /\ ScaledBy(2, 2, 1)
    /\ ScaledBy(3, 3, 1)

\* C23 witness: such a call has returned and has moved the third point
C23_Witness ==
  /\ WeightedScaleCase
  /\ gpmod.calls = 1
  /\ gpmod.gps.points[3].co = <<-3 * CoOne, 9 * CoOne, 6 * CoOne>>
  /\ gpmod.gps.points[3].pressure = 3 * PressureOne

\* C24: deformBezier on a stroke that passes the inclusion test but has no edit
\* curve completes without effect: no point, pressure or flag of the stroke is
\* changed and no invalid access is made
C24_NoCurveNoEffectClaimed ==
  (gpmod.last = "bezier" /\ gpmod.affected /\ gpmod.before.editcurve.null) =>
    /\ gpmod.status = "ok"
    /\ gpmod.gps = gpmod.before

------------------------------------------------------------------------------
(* PBVH: face removal of faces with and without a node *)

\* most pbvh_bmesh_face_remove calls of one run that are not followed by
\* BM_face_kill
MaxRemoves == 2

\* the meshes of the runs that remove faces
RemoveMeshes == {MeshStrip, MeshHidden, MeshCorner, MeshFan}

\* pbvh_bmesh_face_remove alone: the face leaves its node and stays in the mesh
\* with the tag DYNTOPO_NODE_NONE, as between the removal and the kill of a
\* face in pbvh_bmesh_collapse_edge
FaceRemoveCall(f) ==
  /\ pc = "idle"
  /\ hist.removes < MaxRemoves
  /\ f \in DOMAIN pbvh.faces
  /\ pbvh' = pbvh_bmesh_face_remove(pbvh, f)
  /\ hist' = [hist EXCEPT !.removes = @ + 1, !.last = "remove",
                          !.removal = FaceRemoval(pbvh, f)]
  /\ UNCHANGED <<pc, args, eq_ctx, loc, curveVars, editorVars>>

InitRemove ==
  /\ NoCurve
  /\ NoEditors
  /\ \E bm \in RemoveMeshes : pbvh = BKE_pbvh_build_bmesh(bm)
  /\ pc = "idle"
  /\ args = NoArgs
  /\ eq_ctx = EdgeQueueContext
  /\ loc = Locals
  /\ hist = NoHistory

NextRemove ==
  \/ \E f \in DOMAIN pbvh.faces : FaceRemoveCall(f)
  \/ \E f \in DOMAIN pbvh.faces : BKE_pbvh_bmesh_face_kill(f)

SpecRemove == InitRemove /\ [][NextRemove]_vars

\* C25: when a face whose tag is DYNTOPO_NODE_NONE is passed to
\* pbvh_bmesh_face_remove or to BKE_pbvh_bmesh_face_kill, "pbvh corruption" is
\* printed and the call returns without effect: no leaf set, node flag,
\* undo-log entry or mesh element is changed
C25_UntrackedFaceNoEffectClaimed ==
  [][(/\ hist'.removes + hist'.kills = hist.removes + hist.kills + 1
      /\ hist'.removal.tag = DYNTOPO_NODE_NONE)
     => /\ hist'.removal.printed = <<"pbvh corruption">>
        /\ hist'.removal.logged = << >>
        /\ pbvh' = pbvh]_vars

------------------------------------------------------------------------------
(* Spreadsheet editor (space_spreadsheet.cc): bounds and inputs *)

\* most redraws of one run
MaxDraws == 2

\* UI_UNIT_X = UI_UNIT_Y values, region sizes and view offsets the model draws
\* from (v2d->cur.ymax is never positive: V2D_ALIGN_NO_POS_Y)
UiUnits == {20, 14}
RegionSizes == {<<700, 500>>, <<300, 130>>}
ScrollXs == {0, 30}
ScrollYs == {0, -40, -50, -1990}

\* the columns and the rows of spreadsheet_main_region_draw
ColumnWidths == <<100, 200, 100, 200, 80>>
RowAmount == 101

------------------------------------------------------------------------------
(* Spreadsheet editor: drawing *)

\* BLI_rcti_init
Rcti(xmin, xmax, ymin, ymax) ==
  [xmin |-> xmin, xmax |-> xmax, ymin |-> ymin, ymax |-> ymax]

\* the layout spreadsheet_main_region_draw sets up
SpreadsheetLayout(ui_unit) ==
  [index_column_width |-> 2 * ui_unit,
   row_height |-> ui_unit,
   title_row_height |-> Trunc(3 * ui_unit, 2),
   columns |-> ColumnWidths]

\* mutant: the first row is counted from the title row height
get_visible_rows_title(layout, winy, scroll_offset_y) ==
  [first_row |-> Trunc(-scroll_offset_y, layout.title_row_height),
   max_visible_rows |-> Trunc(winy, layout.row_height) + 1]

\* get_visible_rows
get_visible_rows(layout, winy, scroll_offset_y) ==
  [first_row |-> Trunc(-scroll_offset_y, layout.row_height),
   max_visible_rows |-> Trunc(winy, layout.row_height) + 1]

\* for (i : IndexRange(first_row, max_visible_rows)) with the break at
\* i >= row_indices.size(): the rows the loop body runs for, in order
DrawnRows(rows, row_amount) ==
  [k \in 1 .. Max({0, Min({rows.max_visible_rows, row_amount - rows.first_row})})
     |-> rows.first_row + k - 1]

\* left_x of column c: the index column, the scroll offset and the widths of
\* the columns before
ColumnLeft(layout, scroll_offset_x, c) ==
  Fold(LAMBDA x, k : x + layout.columns[k],
       layout.index_column_width - scroll_offset_x,
       [k \in 1 .. c - 1 |-> k])

\* bottom_y of row i
RowBottom(layout, winy, scroll_offset_y, i) ==
  winy - layout.title_row_height - (i + 1) * layout.row_height - scroll_offset_y

\* draw_row_indices: one label per drawn row; row_indices is IndexRange(row_amount)
draw_row_indices(layout, winy, scroll_offset_y, row_amount) ==
  LET rows == DrawnRows(get_visible_rows(layout, winy, scroll_offset_y), row_amount)
  IN [k \in DOMAIN rows |->
        [index |-> rows[k],
         x |-> 0,
         y |-> RowBottom(layout, winy, scroll_offset_y, rows[k]),
         width |-> layout.index_column_width,
         height |-> layout.row_height]]

\* the rectangle draw_column_headers hands to draw_header
HeaderRect(layout, winy, left_x, right_x) ==
  Rcti(left_x, right_x, winy - layout.index_column_width, winy)

\* draw_column_headers: one draw_header request per column
draw_column_headers(layout, winy, scroll_offset_x) ==
  [c \in DOMAIN layout.columns |->
     LET left_x == ColumnLeft(layout, scroll_offset_x, c)
     IN [column |-> c,
         rect |-> HeaderRect(layout, winy, left_x, left_x + layout.columns[c])]]

\* draw_cell_contents: the draw_cell requests, column by column
draw_cell_contents(layout, winy, row_amount, scroll_offset_x, scroll_offset_y) ==
  LET rows == DrawnRows(get_visible_rows(layout, winy, scroll_offset_y), row_amount)
  IN [c \in DOMAIN layout.columns |->
        LET left_x == ColumnLeft(layout, scroll_offset_x, c)
        IN [k \in DOMAIN rows |->
              LET bottom_y == RowBottom(layout, winy, scroll_offset_y, rows[k])
              IN [index |-> rows[k],
                  rect |-> Rcti(left_x, left_x + layout.columns[c], bottom_y,
                                bottom_y + layout.row_height)]]]

\* update_view2d_tot_rect
update_view2d_tot_rect(layout, row_amount) ==
  <<Fold(LAMBDA x, k : x + layout.columns[k], layout.index_column_width,
         [k \in DOMAIN layout.columns |-> k]),
    row_amount * layout.row_height + layout.title_row_height>>

NoDraw ==
  [layout |-> << >>, scroll |-> <<0, 0>>, rows |-> << >>, indices |-> << >>,
   headers |-> << >>, cells |-> << >>, scissor_headers |-> << >>,
   scissor_cells |-> << >>]

\* spreadsheet_main_region_draw -> draw_spreadsheet, update_view2d_tot_rect
spreadsheet_main_region_draw ==
  /\ sheet.draws < MaxDraws
  /\ LET layout == SpreadsheetLayout(sheet.ui_unit)
         scroll_offset_y == sheet.cur.ymax
         scroll_offset_x == sheet.cur.xmin
     IN sheet' =
          [sheet EXCEPT
             !.draws = @ + 1,
             !.tot = update_view2d_tot_rect(layout, RowAmount),
             !.drawn =
                [layout |-> layout,
                 scroll |-> <<scroll_offset_x, scroll_offset_y>>,
                 rows |-> get_visible_rows(layout, sheet.winy, scroll_offset_y),
                 indices |-> draw_row_indices(layout, sheet.winy, scroll_offset_y,
                                              RowAmount),
                 headers |-> draw_column_headers(layout, sheet.winy, scroll_offset_x),
                 cells |-> draw_cell_contents(layout, sheet.winy, RowAmount,
                                              scroll_offset_x, scroll_offset_y),
                 scissor_headers |->
                    <<layout.index_column_width + 1,
                      sheet.winy - layout.title_row_height,
                      sheet.winx - layout.index_column_width,
                      layout.title_row_height>>,
                 scissor_cells |->
                    <<layout.index_column_width + 1, 0,
                      sheet.winx - layout.index_column_width,
                      sheet.winy - layout.title_row_height>>]]
  /\ UNCHANGED <<curveVars, pbvhVars, gpmod, prof>>

\* the view is scrolled (the view2d operators move v2d->cur)
SheetScroll(x, y) ==
  /\ <<x, y>> # <<sheet.cur.xmin, sheet.cur.ymax>>
  /\ sheet' = [sheet EXCEPT !.cur = [xmin |-> x, ymax |-> y]]
  /\ UNCHANGED <<curveVars, pbvhVars, gpmod, prof>>

\* the region is resized
SheetResize(size) ==
  /\ size # <<sheet.winx, sheet.winy>>
  /\ sheet' = [sheet EXCEPT !.winx = size[1], !.winy = size[2]]
  /\ UNCHANGED <<curveVars, pbvhVars, gpmod, prof>>

InitSheet ==
  /\ NoCurve
  /\ NoPbvh
  /\ gpmod = << >>
  /\ prof = << >>
  /\ \E u \in UiUnits, size \in RegionSizes :
       sheet = [ui_unit |-> u, winx |-> size[1], winy |-> size[2],
                cur |-> [xmin |-> 0, ymax |-> 0], tot |-> <<0, 0>>,
                draws |-> 0, drawn |-> NoDraw]

NextSheet ==
  \/ spreadsheet_main_region_draw
  \/ \E x \in ScrollXs, y \in ScrollYs : SheetScroll(x, y)
  \/ \E size \in RegionSizes : SheetResize(size)

SpecSheet == InitSheet /\ [][NextSheet]_vars

------------------------------------------------------------------------------
(* Spreadsheet editor: properties *)

\* a redraw has been made
SheetDrawn == sheet.drawn.layout # << >>

\* C26: for a vertical scroll offset s <= 0 the first row requested for drawing
\* is floor(-s / row_height) and floor(region_height / row_height) + 1 rows are
\* requested; with row height 20 and region height 500 these are 26 rows from
\* row 0 at offset 0 and from row 2 at offset -40
C26_VisibleRows ==
  (SheetDrawn /\ sheet.drawn.scroll[2] <= 0) =>
    LET s == sheet.drawn.scroll[2]
        row_height == sheet.drawn.layout.row_height
        region_height ==
          sheet.drawn.scissor_cells[4] + sheet.drawn.layout.title_row_height
    IN /\ sheet.drawn.rows.first_row = (-s) \div row_height
       /\ sheet.drawn.rows.max_visible_rows = (region_height \div row_height) + 1
       /\ (row_height = 20 /\ region_height = 500) =>
            /\ sheet.drawn.rows.max_visible_rows = 26
            /\ s = 0 => sheet.drawn.rows.first_row = 0
            /\ s = -40 => sheet.drawn.rows.first_row = 2
       /\ \A c \in DOMAIN sheet.drawn.cells :
            \A k \in DOMAIN sheet.drawn.cells[c] :
              /\ sheet.drawn.cells[c][k].index = sheet.drawn.rows.first_row + k - 1
              /\ k <= sheet.drawn.rows.max_visible_rows

\* C26 witness: a redraw of a region 500 high with rows 20 high, scrolled down
\* by two rows, has asked for 26 rows of cells from row 2 on
C26_Witness ==
  /\ SheetDrawn
  /\ sheet.drawn.layout.row_height = 20
  /\ sheet.drawn.scroll[2] = -40
  /\ sheet.drawn.rows = [first_row |-> 2, max_visible_rows |-> 26]
  /\ Len(sheet.drawn.cells[1]) = 26
  /\ sheet.drawn.cells[1][1].index = 2


\* C27: every column header is handed a rectangle inside the title row: it runs
\* vertically from region_height - title_row_height to region_height and
\* horizontally over the column's own span
C27_HeaderInTitleRowClaimed ==
  SheetDrawn =>
    LET layout == sheet.drawn.layout
        region_height == sheet.drawn.scissor_headers[2] + layout.title_row_height
    IN \A c \in DOMAIN sheet.drawn.headers :
         LET rect == sheet.drawn.headers[c].rect
         IN /\ rect.ymin = region_height - layout.title_row_height
            /\ rect.ymax = region_height
            /\ rect.xmin = ColumnLeft(layout, sheet.drawn.scroll[1], c)
            /\ rect.xmax = rect.xmin + layout.columns[c]


------------------------------------------------------------------------------
(* Profiler editor (profiler_draw.cc): inputs *)

\* UI_UNIT_Y values and region heights of the profiler region
ProfUnits == {20, 14, 22}
ProfHeights == {300, 200, 120}

\* a node of the layout before its extents are computed
ProfileNode(direct, parallel) ==
  [direct |-> direct, parallel |-> parallel, top_y |-> 0, bottom_y |-> 0]

\* the sample trees a flush can leave in the layout: the nodes by number and
\* the groups of root nodes
ProfilerLayouts ==
  { [nodes |-> <<ProfileNode(<< >>, << >>)>>, roots |-> <<<<1>>>>],
    [nodes |-> <<ProfileNode(<<2, 3>>, << >>), ProfileNode(<<4>>, << >>),
                 ProfileNode(<< >>, << >>), ProfileNode(<< >>, << >>)>>,
     roots |-> <<<<1>>>>],
    [nodes |-> <<ProfileNode(<<2>>, <<<<3, 4>>, <<5>>>>), ProfileNode(<< >>, << >>),
                 ProfileNode(<<6>>, << >>), ProfileNode(<< >>, << >>),
                 ProfileNode(<< >>, << >>), ProfileNode(<< >>, << >>)>>,
     roots |-> <<<<1>>>>],
    [nodes |-> <<ProfileNode(<< >>, <<<<3>>, <<4>>, <<6>>>>), ProfileNode(<< >>, << >>),
                 ProfileNode(<< >>, << >>), ProfileNode(<< >>, <<<<5>>>>),
                 ProfileNode(<< >>, << >>), ProfileNode(<< >>, << >>)>>,
     roots |-> <<<<1>>, <<2>>>>],
    [nodes |-> <<ProfileNode(<<3>>, << >>), ProfileNode(<< >>, <<<<4>>, <<5>>>>),
                 ProfileNode(<< >>, <<<<6>>>>), ProfileNode(<<7>>, << >>),
                 ProfileNode(<< >>, << >>), ProfileNode(<< >>, << >>),
                 ProfileNode(<< >>, << >>)>>,
     roots |-> <<<<1, 2>>>>],
    [nodes |-> <<ProfileNode(<<2>>, << >>), ProfileNode(<<3>>, <<<<4>>, <<5>>>>),
                 ProfileNode(<< >>, << >>), ProfileNode(<< >>, << >>),
                 ProfileNode(<<6>>, << >>), ProfileNode(<< >>, << >>)>>,
     roots |-> <<<<1>>>>] }

------------------------------------------------------------------------------
(* Profiler editor: the layout pass *)

\* mutant: no padding between parallel groups
parallel_padding_none(ui_unit) == 0

\* parallel_padding_ = UI_UNIT_Y * 0.2f stored in an int
parallel_padding(ui_unit) == Trunc(ui_unit * 2, 10)

RECURSIVE compute_vertical_extends_of_nodes(_, _, _, _)
RECURSIVE compute_vertical_extends_of_node(_, _, _)

\* compute_vertical_extends_of_nodes: N is the node table, the result carries
\* the table and the returned bottom_y
compute_vertical_extends_of_nodes(N, nodes, top_y, ui_unit) ==
  Fold(LAMBDA acc, node :
         LET Visit(M) == [N |-> M, ret |-> Min({acc.ret, M[node].bottom_y})]
         IN Visit(compute_vertical_extends_of_node(
                    [acc.N EXCEPT ![node].top_y = top_y], node, ui_unit)),
       [N |-> N, ret |-> top_y], nodes)

\* compute_vertical_extends_of_node
compute_vertical_extends_of_node(N, node, ui_unit) ==
  LET Store(r) == [r.N EXCEPT ![node].bottom_y = r.ret]
      Direct(M) ==
        Store(compute_vertical_extends_of_nodes(M, M[node].direct,
                                                M[node].bottom_y, ui_unit))
      Padded(M) == [M EXCEPT ![node].bottom_y = @ - parallel_padding(ui_unit)]
      Group(M, children) ==
        Store(compute_vertical_extends_of_nodes(M, children, M[node].bottom_y,
                                                ui_unit))
  IN Fold(LAMBDA M, children : Group(Padded(M), children),
          Direct([N EXCEPT ![node].bottom_y = N[node].top_y - ui_unit]),
          N[node].parallel)

\* compute_vertical_extends_of_all_nodes
compute_vertical_extends_of_all_nodes(layout, winy, ui_unit) ==
  LET Roots(acc, nodes) ==
        LET Below(r) == [N |-> r.N, top_y |-> r.ret - parallel_padding(ui_unit)]
        IN Below(compute_vertical_extends_of_nodes(acc.N, nodes, acc.top_y, ui_unit))
  IN [layout EXCEPT
        !.nodes = Fold(Roots, [N |-> layout.nodes, top_y |-> winy], layout.roots).N]

\* the layout after a flush left the sample tree l: nodes that were there
\* before keep the extents of the previous pass
Flushed(old, l) ==
  [l EXCEPT !.nodes =
     [i \in DOMAIN l.nodes |->
        IF i \in DOMAIN old.nodes
          THEN [l.nodes[i] EXCEPT !.top_y = old.nodes[i].top_y,
                                  !.bottom_y = old.nodes[i].bottom_y]
          ELSE l.nodes[i]]]

\* draw_profiler: ProfilerDrawer's constructor flushes the samples, draw() runs
\* the layout pass
draw_profiler(l) ==
  /\ prof.draws < MaxDraws
  /\ prof' = [prof EXCEPT
                !.draws = @ + 1,
                !.row_height = prof.ui_unit,
                !.layout = compute_vertical_extends_of_all_nodes(
                             Flushed(prof.layout, l), prof.winy, prof.ui_unit)]
  /\ UNCHANGED <<curveVars, pbvhVars, gpmod, sheet>>

\* the region is resized
ProfResize(winy) ==
  /\ winy # prof.winy
  /\ prof' = [prof EXCEPT !.winy = winy]
  /\ UNCHANGED <<curveVars, pbvhVars, gpmod, sheet>>

InitProf ==
  /\ NoCurve
  /\ NoPbvh
  /\ gpmod = << >>
  /\ sheet = << >>
  /\ \E u \in ProfUnits, winy \in ProfHeights :
       prof = [ui_unit |-> u, winy |-> winy, row_height |-> 0, draws |-> 0,
               layout |-> [nodes |-> << >>, roots |-> << >>]]

NextProf ==
  \/ \E l \in ProfilerLayouts : draw_profiler(l)
  \/ \E winy \in ProfHeights : ProfResize(winy)

SpecProf == InitProf /\ [][NextProf]_vars

------------------------------------------------------------------------------
(* Profiler editor: properties *)

ProfNodes == prof.layout.nodes

\* the children of node p: the direct ones and those of every parallel group
ProfChildren(p) ==
  Range(ProfNodes[p].direct) \cup
  UNION {Range(ProfNodes[p].parallel[g]) : g \in DOMAIN ProfNodes[p].parallel}

\* the vertical band of the g-th parallel group of node p
BandTop(p, g) == Max({ProfNodes[c].top_y : c \in Range(ProfNodes[p].parallel[g])})
BandBottom(p, g) ==
  Min({ProfNodes[c].bottom_y : c \in Range(ProfNodes[p].parallel[g])})

\* every node is one row high at least, and every child lies inside its
\* parent's extent below the parent's own row
ExtentsNested ==
  /\ \A n \in DOMAIN ProfNodes :
       ProfNodes[n].bottom_y <= ProfNodes[n].top_y - prof.row_height
  /\ \A p \in DOMAIN ProfNodes : \A c \in ProfChildren(p) :
       /\ ProfNodes[c].top_y <= ProfNodes[p].top_y - prof.row_height
       /\ ProfNodes[c].bottom_y >= ProfNodes[p].bottom_y

\* C28 as claimed: after the layout pass every node is one row high at least,
\* children lie inside their parent below its row, and successive parallel
\* groups are disjoint bands exactly 20% of a row height apart
C28_LayoutClaimed ==
  prof.draws > 0 =>
    /\ ExtentsNested
    /\ \A p \in DOMAIN ProfNodes :
         \A g \in DOMAIN ProfNodes[p].parallel :
           (g + 1 \in DOMAIN ProfNodes[p].parallel) =>
             /\ BandTop(p, g + 1) <= BandBottom(p, g)
             /\ 5 * (BandBottom(p, g) - BandTop(p, g + 1)) = prof.row_height

\* C28 amended: the same, with the padding of 20% of a row height truncated to
\* whole pixels
C28_Layout ==
  prof.draws > 0 =>
    /\ ExtentsNested
    /\ \A p \in DOMAIN ProfNodes :
         \A g \in DOMAIN ProfNodes[p].parallel :
           (g + 1 \in DOMAIN ProfNodes[p].parallel) =>
             /\ BandTop(p, g + 1) <= BandBottom(p, g)
             /\ BandBottom(p, g) - BandTop(p, g + 1) = prof.row_height \div 5

\* C28 witness: a pass with rows 14 high has laid out a node with a direct
\* child and two parallel groups, the first of them two rows deep
C28_Witness ==
  /\ prof.draws > 0
  /\ prof.row_height = 14
  /\ \E p \in DOMAIN ProfNodes :
       /\ ProfNodes[p].direct # << >>
       /\ Len(ProfNodes[p].parallel) = 2
       /\ BandTop(p, 1) - BandBottom(p, 1) = 28
       /\ BandBottom(p, 1) - BandTop(p, 2) = 2


------------------------------------------------------------------------------
(* PBVH: the edge queue holds an edge once *)

\* the edge of the i-th entry of the queue
QueuedEdge(i) == {eq_ctx.heap[i].pair[1], eq_ctx.heap[i].pair[2]}

\* C29: during a subdivide or collapse pass, when the queue has been built and
\* at every turn of the drain loop, the queue holds at most one entry per edge
C29_QueueOneEntryPerEdgeClaimed ==
  pc \in {"collapse", "subdivide"} =>
    \A i, j \in 1 .. Len(eq_ctx.heap) : QueuedEdge(i) = QueuedEdge(j) => i = j


------------------------------------------------------------------------------
(* PBVH: the parallel discovery phase of long_edge_queue_create *)

DiscoverMeshes == {MeshFan, MeshStrip, MeshCorner, MeshHidden, MeshWedge}

\* the memory locations the tasks share: BM_ELEM_TAG of an edge, the
\* coordinates of a vertex
TagOf(e) == <<"tag", e>>
CoOf(v) == <<"co", v>>

\* the vertices surface_smooth_v_safe(v) reads: v and the other ends of its edges
SmoothReads(P, v) == {CoOf(v2) : v2 \in UNION BM_EDGES_OF_VERT(P, v)}

\* the vertex surface_smooth_v_safe(v) writes (the three atomic_cas_float),
\* unless v has no edge
SmoothWrites(P, v) == IF BM_EDGES_OF_VERT(P, v) = {} THEN {} ELSE {CoOf(v)}

\* what the loop body for face f reads of the vertices: the range test and the
\* edge lengths read the face's own vertices, the smoothing their neighbours
FaceReads(P, q, f) ==
  {CoOf(v) : v \in FaceVerts(P, f)} \cup
  (IF edge_queue_tri_in_sphere(P, q, f)
   THEN UNION {SmoothReads(P, v) : v \in FaceVerts(P, f)}
   ELSE {})

FaceWrites(P, q, f) ==
  IF edge_queue_tri_in_sphere(P, q, f)
  THEN UNION {SmoothWrites(P, v) : v \in FaceVerts(P, f)}
  ELSE {}

\* the edges a sequence holds from position k on
EdgesFrom(edges, k) == {edges[i] : i \in k .. Len(edges)}

\* long_edge_queue_create up to BLI_task_parallel_range: the queue of eq_ctx
\* and one EdgeQueueThreadData per leaf marked for a topology update
DiscoverBegin(center, radius) ==
  /\ pc = "idle"
  /\ TopologyNodes(pbvh) # << >>
  /\ args' = [NoArgs EXCEPT !.mode = {"PBVH_Subdivide"}, !.center = center,
                            !.radius = radius]
  /\ eq_ctx' = [EdgeQueueContext EXCEPT
                  !.q = EdgeQueue(center, radius, pbvh.bm_max_edge_len)]
  /\ loc' = [tag |-> {},
             tasks |-> [n \in Range(TopologyNodes(pbvh)) |->
                          [stage |-> "clear",
                           todo |-> Ascending(pbvh.nodes[n].bm_faces),
                           edges |-> << >>, reads |-> {}, writes |-> {}]]]
  /\ pc' = "discover"
  /\ UNCHANGED <<pbvh, hist, curveVars, editorVars>>

\* the first loop of long_edge_queue_task_cb in task n: BM_ELEM_TAG is taken
\* off every edge of every face of the leaf
TaskClearTags(n) ==
  /\ pc = "discover"
  /\ n \in DOMAIN loc.tasks
  /\ loc.tasks[n].stage = "clear"
  /\ loc' = [loc EXCEPT
               !.tag = @ \ NodeEdges(pbvh, n),
               !.tasks[n].stage = IF loc.tasks[n].todo = << >> THEN "done" ELSE "faces",
               !.tasks[n].writes = @ \cup {TagOf(e) : e \in NodeEdges(pbvh, n)}]
  /\ UNCHANGED <<pbvh, pc, args, eq_ctx, hist, curveVars, editorVars>>

\* one turn of the second loop of long_edge_queue_task_cb in task n
TaskFace(n) ==
  /\ pc = "discover"
  /\ n \in DOMAIN loc.tasks
  /\ loc.tasks[n].stage = "faces"
  /\ LET f == Head(loc.tasks[n].todo)
         Done(A) ==
           /\ pbvh' = A.P
           /\ loc' = [loc EXCEPT
                        !.tag = A.tdata.tag,
                        !.tasks[n].edges = A.tdata.edges,
                        !.tasks[n].todo = Tail(@),
                        !.tasks[n].stage = IF Tail(loc.tasks[n].todo) = << >>
                                           THEN "done" ELSE "faces",
                        !.tasks[n].reads = @ \cup FaceReads(pbvh, eq_ctx.q, f),
                        !.tasks[n].writes =
                           @ \cup FaceWrites(pbvh, eq_ctx.q, f)
                             \cup {TagOf(e) : e \in EdgesFrom(A.tdata.edges,
                                                 Len(loc.tasks[n].edges) + 1)}]
     IN Done(long_edge_queue_task_face(
               [P |-> pbvh, tdata |-> [tag |-> loc.tag, edges |-> loc.tasks[n].edges]],
               eq_ctx.q, f))
  /\ UNCHANGED <<pc, args, eq_ctx, hist, curveVars, editorVars>>

\* long_edge_queue_create after BLI_task_parallel_range: the edges of every
\* task lose the tag and go to edge_queue_insert
DiscoverEnd ==
  /\ pc = "discover"
  /\ \A n \in DOMAIN loc.tasks : loc.tasks[n].stage = "done"
  /\ LET collected ==
           Fold(LAMBDA es, n : es \o loc.tasks[n].edges, << >>, TopologyNodes(pbvh))
     IN /\ eq_ctx' = Fold(LAMBDA E, e : edge_queue_insert(pbvh, E, e, -len_squared(pbvh, e)),
                          eq_ctx, collected)
        /\ loc' = [loc EXCEPT !.tag = @ \ Range(collected)]
  /\ pc' = "collected"
  /\ UNCHANGED <<pbvh, args, hist, curveVars, editorVars>>

InitDiscover ==
  /\ NoCurve
  /\ NoEditors
  /\ \E bm \in DiscoverMeshes : pbvh = BKE_pbvh_build_bmesh(bm)
  /\ pc = "idle"
  /\ args = NoArgs
  /\ eq_ctx = EdgeQueueContext
  /\ loc = Locals
  /\ hist = NoHistory

NextDiscover ==
  \/ \E n \in DOMAIN pbvh.nodes : BKE_pbvh_node_mark_topology_update(n)
  \/ \E center \in Centers, radius \in Radii : DiscoverBegin(center, radius)
  \/ \E n \in DOMAIN pbvh.nodes : TaskClearTags(n)
  \/ \E n \in DOMAIN pbvh.nodes : TaskFace(n)
  \/ DiscoverEnd

SpecDiscover == InitDiscover /\ [][NextDiscover]_vars

\* C30: during the parallel discovery phase no memory location (the tag of an
\* edge, the coordinates of a vertex) is written by one task and read or
\* written by another task
C30_TasksWritePrivateClaimed ==
  pc = "discover" =>
    \A n1, n2 \in DOMAIN loc.tasks :
      n1 # n2 =>
        loc.tasks[n1].writes \cap (loc.tasks[n2].reads \cup loc.tasks[n2].writes) = {}


\* C31: under every interleaving of the discovery tasks no task's private
\* candidate buffer holds the same edge twice
C31_BufferOneEntryPerEdgeClaimed ==
  pc = "discover" =>
    \A n \in DOMAIN loc.tasks :
      \A i, j \in 1 .. Len(loc.tasks[n].edges) :
        loc.tasks[n].edges[i] = loc.tasks[n].edges[j] => i = j


------------------------------------------------------------------------------
(* Curve draw tool: further properties *)

\* C32: while the tool runs the curve has at least one control point, so the
\* last point that updates, thickness edits and confirm read and write exists
C32_AtLeastOnePointClaimed ==
  status = "modal" => Len(cpts) >= 1


\* C33: when the tool has ended without CONFIRM, through the CANCEL command or
\* through the operator's cancel callback, the in-progress stroke and its
\* curve are no longer in the active frame
C33_CancelRemovesStrokeClaimed ==
  status = "cancelled" =>
    /\ gps \notin Range(gpf_strokes)
    /\ Range(gpf_strokes) \subseteq Range(strokes_before)


\* C34: a pointer press that starts a point (IN_MOVE to IN_SET_VECTOR)
\* followed by its release appends exactly one point to the curve, whatever
\* SET_THICKNESS, CYCLIC_TOGGLE or FREE_HANDLE commands came in between
C34_PressReleaseAppendsClaimed ==
  [][(pending /\ Len(cpts) >= 1 /\ status = "modal"
      /\ ev' = "RELEASE" /\ n_events' = n_events + 1)
       => Len(cpts') = Len(cpts) + 1]_vars


------------------------------------------------------------------------------
(* PBVH: further properties of BKE_pbvh_bmesh_update_topology *)

\* C35: the call returns true only if it changed the mesh: an edge was split
\* or collapsed, or the cleanup removed a vertex
C35_ModifiedOnlyIfChangedClaimed ==
  [][(pc = "finish" /\ pc' = "idle" /\ loc.modified)
       => Topology(pbvh) # hist.topo]_vars


\* the edge the drain of the current pass takes from the heap next
PoppedPair == eq_ctx.heap[HeapMin(eq_ctx.heap)].pair

\* a turn of a drain loop that changed the mesh
DrainChanged(stage) ==
  /\ pc = stage
  /\ hist'.popped = hist.popped + 1
  /\ Topology(pbvh') # Topology(pbvh)

\* C36: an edge is split only while longer than bm_max_edge_len and
\* collapsed only while shorter than bm_min_edge_len, measured at the moment
\* of the operation and not when the edge was queued
C36_LengthAtOperationClaimed ==
  [][/\ DrainChanged("subdivide") =>
          len_squared(pbvh, {PoppedPair[1], PoppedPair[2]}) > Sq(pbvh.bm_max_edge_len)
     /\ DrainChanged("collapse") =>
          len_squared(pbvh, {bm_vert_hash_lookup_chain(loc.deleted_verts, PoppedPair[1]),
                             bm_vert_hash_lookup_chain(loc.deleted_verts, PoppedPair[2])})
            < Sq(pbvh.bm_min_edge_len)]_vars


\* the statistics of a subdivide pass with everything sampled before it taken out:
\* what the pass's own discovery alone has sampled
OwnStatistics(P, before, center, radius) ==
  LET Own(R) == R.eq
  IN  Own(long_edge_queue_create(P, [before EXCEPT !.avg_elen = 0, !.max_elen = -1000000,
                                                   !.min_elen = 1000000, !.totedge = 0],
                                 center, radius))

\* C37: when both passes run in one call and the subdivide discovery has
\* sampled an edge, the subdivide ratio is the one its own samples give
C37_SubdivideRatioOwnEdgesClaimed ==
  [][(/\ pc = "subdivide_create"
      /\ pc' = "subdivide"
      /\ "PBVH_Collapse" \in args.mode
      /\ eq_ctx'.totedge > eq_ctx.totedge)
       => loc'.ratio
            = SubdivideRatio(pbvh', OwnStatistics(pbvh, eq_ctx, args.center, args.radius),
                             loc.ratio)]_vars


\* the vertices held by the pairs of the heap
QueuedVerts == UNION {Range(eq_ctx.heap[i].pair) : i \in DOMAIN eq_ctx.heap}

\* the walk of bm_vert_hash_lookup_chain cut after fuel steps: -1 when it has
\* not come to an end by then
RECURSIVE LookupWithin(_, _, _)
LookupWithin(deleted_verts, v, fuel) ==
  IF v \notin DOMAIN deleted_verts THEN v
  ELSE IF deleted_verts[v] = 0 THEN 0
  ELSE IF fuel = 0 THEN -1
  ELSE LookupWithin(deleted_verts, deleted_verts[v], fuel - 1)

\* v resolves, in no more steps than deleted_verts has keys, to NULL or to a
\* vertex of the mesh
ResolvesLive(v) ==
  LET Live(r) == r # -1 /\ (r = 0 \/ r \in DOMAIN pbvh.co)
  IN  Live(LookupWithin(loc.deleted_verts, v, Cardinality(DOMAIN loc.deleted_verts)))

\* C38: during a collapse pass deleted_verts has no cycle, and every queued
\* vertex resolves through it to a live vertex or to NULL
C38_DeletedVertsResolve ==
  pc = "collapse" =>
    \A v \in QueuedVerts \cup DOMAIN loc.deleted_verts : ResolvesLive(v)

\* a queued vertex was merged into a vertex that was merged in turn
C38_Witness ==
  /\ pc = "collapse"
  /\ \E v \in QueuedVerts :
       /\ v \in DOMAIN loc.deleted_verts
       /\ loc.deleted_verts[v] \in DOMAIN loc.deleted_verts
       /\ bm_vert_hash_lookup_chain(loc.deleted_verts, v) \in DOMAIN pbvh.co


------------------------------------------------------------------------------
(* PBVH: re-splitting a leaf that is over the limit *)

\* most pbvh_bmesh_node_limit_ensure calls of one run
MaxSplits == 2

\* the coordinates the vertices of the split scenes are put at
SplitCoords == {0, 48, 96}

\* a strip of four faces in one leaf, which is over the limit; vertices may
\* share a position and faces a centroid
SplitScenes ==
  {[BuildBmesh(Mesh(co, <<0, 0, 0, 0, 0>>, {},
                    <<<<1, 2, 3>>, <<2, 4, 3>>, <<3, 4, 5>>, <<1, 3, 5>>>>, {}), 4)
      EXCEPT !.leaf_limit = LeafLimit] : co \in [1 .. 5 -> SplitCoords]}

\* pbvh_bmesh_node_limit_ensure on leaf n, as the last loop of
\* BKE_pbvh_bmesh_update_topology calls it
LimitEnsureCall(n) ==
  /\ pc = "idle"
  /\ hist.calls < MaxSplits
  /\ n \in LeafNodes(pbvh)
  /\ pbvh' = pbvh_bmesh_node_limit_ensure(pbvh, n)
  /\ hist' = [hist EXCEPT !.calls = @ + 1, !.last = "limit_ensure", !.node = n]
  /\ UNCHANGED <<pc, args, eq_ctx, loc, curveVars, editorVars>>

InitSplit ==
  /\ NoCurve
  /\ NoEditors
  /\ pbvh \in SplitScenes
  /\ pc = "idle"
  /\ args = NoArgs
  /\ eq_ctx = EdgeQueueContext
  /\ loc = Locals
  /\ hist = NoHistory

NextSplit == \E n \in DOMAIN pbvh.nodes : LimitEnsureCall(n)

SpecSplit == InitSplit /\ [][NextSplit]_vars

\* the node whose children m is one of
ParentNode(P, m) ==
  CHOOSE p \in DOMAIN P.nodes :
    ~IsLeaf(P, p) /\ m \in {P.nodes[p].children_offset, P.nodes[p].children_offset + 1}

\* the depth of node m below node n
RECURSIVE SplitDepth(_, _, _)
SplitDepth(P, n, m) == IF m = n THEN 0 ELSE 1 + SplitDepth(P, n, ParentNode(P, m))

\* the faces of F whose centroid is below the midpoint of the centroids of F
LowFaces(P, F) ==
  LET cen == {bcentroid2(P, f) : f \in F}
  IN  {f \in F : 2 * bcentroid2(P, f) < Min(cen) + Max(cen)}

\* a step that is one pbvh_bmesh_node_limit_ensure call
SplitStep == pc = "idle" /\ hist'.last = "limit_ensure" /\ hist'.calls = hist.calls + 1

\* the leaf the call is for keeps its faces, and the faces below every node the
\* call has split are shared out by the midpoint rule
PartitionRule ==
  /\ SubtreeFaces(pbvh', hist'.node) = pbvh.nodes[hist'.node].bm_faces
  /\ \A m \in DOMAIN pbvh'.nodes :
       (~IsLeaf(pbvh', m) /\ (m \notin DOMAIN pbvh.nodes \/ IsLeaf(pbvh, m))) =>
         LET Shared(F, c) ==
               /\ SubtreeFaces(pbvh', c) = LowFaces(pbvh, F)
               /\ SubtreeFaces(pbvh', c + 1) = F \ LowFaces(pbvh, F)
         IN  Shared(SubtreeFaces(pbvh', m), pbvh'.nodes[m].children_offset)

\* of the leaf the call is for and the nodes the call has made, exactly those
\* over the limit and no deeper than last_depth have been split
StopRule(last_depth) ==
  \A m \in {hist'.node} \cup (DOMAIN pbvh'.nodes \ DOMAIN pbvh.nodes) :
    ~IsLeaf(pbvh', m) <=>
      /\ SplitDepth(pbvh', hist'.node, m) <= last_depth
      /\ Cardinality(SubtreeFaces(pbvh', m)) > pbvh.leaf_limit

\* C39 as stated: the faces are shared out by the midpoint rule and a node at
\* depth 6 is not split any more
C39_ResplitClaimed == [][SplitStep => (PartitionRule /\ StopRule(5))]_vars

\* C39, amended: the faces are shared out by the midpoint rule; a node over
\* the limit is split at depths 0 to 6 and left as it is at depth 7
C39_Resplit == [][SplitStep => (PartitionRule /\ StopRule(6))]_vars

\* a call has split down to depth 7, where a leaf stays over the limit, and
\* has put faces on both sides at some node
C39_Witness ==
  /\ hist.last = "limit_ensure"
  /\ ~IsLeaf(pbvh, hist.node)
  /\ \E l \in SubtreeLeaves(pbvh, hist.node) :
       /\ SplitDepth(pbvh, hist.node, l) = 7
       /\ Cardinality(pbvh.nodes[l].bm_faces) > pbvh.leaf_limit
  /\ \E l \in SubtreeLeaves(pbvh, hist.node) :
       /\ SplitDepth(pbvh, hist.node, l) < 7
       /\ pbvh.nodes[l].bm_faces # {}


------------------------------------------------------------------------------
(* PBVH: BKE_pbvh_vert_create_bmesh *)

\* most BKE_pbvh_vert_create_bmesh calls of one run
MaxCreates == 2

\* the positions the new vertices are put at
CreateCoords == {-8, 8, 72, 120, 200, 240}

\* n->vb of a leaf as the builder left it: the box around the vertices of the
\* leaf's faces; the coordinates and the faces are as they were at the build
NodeVb(P, n) ==
  LET xs == {P.co[v] : v \in UNION {FaceVerts(P, f) : f \in P.nodes[n].bm_faces}}
  IN  IF xs = {} THEN << >> ELSE <<Min(xs), Max(xs)>>

\* not (co[j] < vb.bmin[j] || co[j] >= vb.bmax[j])
InVb(P, n, co) == NodeVb(P, n) # << >> /\ ~(co < NodeVb(P, n)[1] \/ co >= NodeVb(P, n)[2])

\* the loop of BKE_pbvh_vert_create_bmesh over the nodes, from node i on: the
\* test of co against node2->vb only continues the loop over j, ok stays true
\* and the loop over the nodes breaks at the first leaf
RECURSIVE vert_create_find_node(_, _, _)
vert_create_find_node(P, co, i) ==
  IF i >= totnode(P) THEN DYNTOPO_NODE_NONE
  ELSE IF ~IsLeaf(P, i) THEN vert_create_find_node(P, co, i + 1)
  ELSE LET ok == TRUE
       IN  IF ok THEN i ELSE vert_create_find_node(P, co, i + 1)

\* BKE_pbvh_vert_create_bmesh with v_example = NULL; node is
\* DYNTOPO_NODE_NONE for NULL
BKE_pbvh_vert_create_bmesh(P, co, node) ==
  LET Create(nd) ==
        IF nd = DYNTOPO_NODE_NONE
        THEN \* "possible pbvh error"
             [P EXCEPT !.co = Put(@, P.nextv, co), !.mask = Put(@, P.nextv, 0),
                       !.origco = Put(@, P.nextv, co), !.stroke_id = Put(@, P.nextv, 0),
                       !.vnode = Put(@, P.nextv, DYNTOPO_NODE_NONE), !.nextv = @ + 1]
        ELSE pbvh_bmesh_vert_create(P, nd, co)
  IN  Create(IF node = DYNTOPO_NODE_NONE THEN vert_create_find_node(P, co, 0) ELSE node)

\* one call of BKE_pbvh_vert_create_bmesh
VertCreateCall(co, node) ==
  /\ pc = "idle"
  /\ hist.calls < MaxCreates
  /\ pbvh.nextv <= MaxVerts
  /\ node \in LeafNodes(pbvh) \cup {DYNTOPO_NODE_NONE}
  /\ pbvh' = BKE_pbvh_vert_create_bmesh(pbvh, co, node)
  /\ hist' = [hist EXCEPT !.calls = @ + 1, !.last = "vert_create", !.node = node]
  /\ UNCHANGED <<pc, args, eq_ctx, loc, curveVars, editorVars>>

InitCreate ==
  /\ NoCurve
  /\ NoEditors
  /\ \E bm \in Meshes : pbvh = BKE_pbvh_build_bmesh(bm)
  /\ pc = "idle"
  /\ args = NoArgs
  /\ eq_ctx = EdgeQueueContext
  /\ loc = Locals
  /\ hist = NoHistory

NextCreate ==
  \E co \in CreateCoords, node \in DOMAIN pbvh.nodes \cup {DYNTOPO_NODE_NONE} :
    VertCreateCall(co, node)

SpecCreate == InitCreate /\ [][NextCreate]_vars

\* C40: a vertex created without a target node is in a leaf whose box holds
\* its position when there is such a leaf, and in no node only when there is
\* none
C40_VertInContainingLeafClaimed ==
  (hist.last = "vert_create" /\ hist.node = DYNTOPO_NODE_NONE) =>
    LET Placed(v, holders) ==
          IF holders # {} THEN pbvh.vnode[v] \in holders
          ELSE pbvh.vnode[v] = DYNTOPO_NODE_NONE
    IN  Placed(pbvh.nextv - 1,
               {n \in LeafNodes(pbvh) : InVb(pbvh, n, pbvh.co[pbvh.nextv - 1])})

====
